---- MODULE Spec2Model ----
(***************************************************************************)
(* Force-directed graph explorer (components/graph): the data hook         *)
(* useGraphData, the simulation hook useGraphSimulation, the selection     *)
(* state of GraphView and the layout helpers of graph-core.ts.             *)
(*                                                                         *)
(* Numbers.  The source computes in IEEE doubles.  Here lengths and        *)
(* velocities are integers in hundredths of a pixel (Px(1) = 100), and the *)
(* fractional constants (DT, SPRING_STRENGTH, CENTER_STRENGTH, DAMPING)    *)
(* and Math.random() results are integers in thousandths.  Quotients are   *)
(* truncated toward zero (TDiv).  Intermediate products stay below 2^31.   *)
(*                                                                         *)
(* Ids.  A node or link id is string | number.  An id is the record        *)
(* [t |-> "string" | "number", s |-> String(id)]; === is record equality   *)
(* and String(a) === String(b) is equality of the s fields.                *)
(***************************************************************************)
EXTENDS Integers, Sequences, FiniteSets, TLC

\* ------------------------------------------------------------------------
\* graph-core.ts: layout and simulation constants
\* ------------------------------------------------------------------------
WIDTH == 960
HEIGHT == 540
REPEL_STRENGTH == 1500
LINK_DISTANCE == 220
\* thousandths: 0.02
SPRING_STRENGTH == 20
\* thousandths: 0.005
CENTER_STRENGTH == 5
\* thousandths: 0.92
DAMPING == 920
\* thousandths: 0.016
DT == 16
MAX_VELOCITY == 35
BOUNDS_MARGIN == 4
\* createInitialNodes: const marginX = 16, marginY = 16
marginX == 16
marginY == 16

\* ------------------------------------------------------------------------
\* Bounds of the model
\* ------------------------------------------------------------------------
MaxTicks == 2
MaxFetches == 2

\* ------------------------------------------------------------------------
\* Fixed-point arithmetic
\* ------------------------------------------------------------------------
Px(n) == n * 100

Abs(a) == IF a >= 0 THEN a ELSE -a

Max(a, b) == IF a >= b THEN a ELSE b

Min(a, b) == IF a <= b THEN a ELSE b

\* a / b truncated toward zero, b > 0
TDiv(a, b) == IF a >= 0 THEN a \div b ELSE -((-a) \div b)

RECURSIVE SqrtSearch(_, _, _)
\* largest r in lo..hi-1 with r*r <= n, given lo*lo <= n < hi*hi
SqrtSearch(n, lo, hi) ==
    IF hi - lo <= 1 THEN lo
    ELSE LET mid == (lo + hi) \div 2
         IN IF mid * mid <= n THEN SqrtSearch(n, mid, hi)
                              ELSE SqrtSearch(n, lo, mid)

\* floor(Math.sqrt(n)) for 0 <= n < 2^31
ISqrt(n) == SqrtSearch(n, 0, 46341)

\* ceil(Math.sqrt(n))
CSqrt(n) == LET r == ISqrt(n) IN IF r * r = n THEN r ELSE r + 1

\* coarsening factor that keeps a*a + b*b below 2^31
Coarse(a, b) == Max(Abs(a), Abs(b)) \div 32000 + 1

\* Math.sqrt(a*a + b*b + eps), rounded down
Norm(a, b, eps) ==
    LET k == Coarse(a, b)
    IN IF k = 1 THEN ISqrt(a * a + b * b + eps)
       ELSE k * ISqrt((Abs(a) \div k) * (Abs(a) \div k)
                      + (Abs(b) \div k) * (Abs(b) \div k))

\* Math.sqrt(a*a + b*b), rounded up
NormUp(a, b) ==
    LET k == Coarse(a, b)
    IN IF k = 1 THEN CSqrt(a * a + b * b)
       ELSE k * (ISqrt((Abs(a) \div k) * (Abs(a) \div k)
                       + (Abs(b) \div k) * (Abs(b) \div k)) + 3)

\* ------------------------------------------------------------------------
\* Ids: string | number | null
\* ------------------------------------------------------------------------
StrId(s) == [t |-> "string", s |-> s]

NumId(s) == [t |-> "number", s |-> s]

\* the null of draggedId
NoId == [t |-> "null", s |-> "null"]

\* String(id)
String(id) == id.s

\* JavaScript truthiness of string | number | null: 0, "" and null are falsy
Truthy(id) ==
    /\ id.t # "null"
    /\ ~(id.t = "number" /\ id.s = "0")
    /\ ~(id.t = "string" /\ id.s = "")

\* ------------------------------------------------------------------------
\* graph-core.ts: createInitialNodes
\* ------------------------------------------------------------------------
usableWidth == WIDTH - marginX * 2

usableHeight == HEIGHT - marginY * 2

\* Math.max(1, Math.ceil(Math.sqrt(count * aspect))), aspect = usableWidth / usableHeight
GridCols(count) ==
    Max(1, CHOOSE c \in 0..(2 * count + 1) :
               /\ c * c * usableHeight >= count * usableWidth
               /\ \A b \in 0..(c - 1) : b * b * usableHeight < count * usableWidth)

\* Math.max(1, Math.ceil(count / cols))
GridRows(count) == Max(1, (count + GridCols(count) - 1) \div GridCols(count))

\* the two branches of the conditional exchanged
cellWidth_Inverted(count) ==
    IF GridCols(count) > 1 THEN 0 ELSE Px(usableWidth)

cellWidth(count) ==
    IF GridCols(count) > 1 THEN Px(usableWidth) \div (GridCols(count) - 1) ELSE 0

cellHeight(count) ==
    IF GridRows(count) > 1 THEN Px(usableHeight) \div (GridRows(count) - 1) ELSE 0

\* index is the 0-based array index
baseX(count, index) == Px(marginX) + (index % GridCols(count)) * cellWidth(count)

baseY(count, index) == Px(marginY) + (index \div GridCols(count)) * cellHeight(count)

\* a jitter of a whole cell: cell * 2 * (Math.random() - 0.5)
Jitter_Full(cell, r) == TDiv(cell * (r - 500), 500)

\* cell * 0.2 * (Math.random() - 0.5), r = Math.random() in thousandths
Jitter(cell, r) == TDiv(cell * (r - 500), 5000)

\* rnd[i] = [rx, ry]: the two Math.random() results drawn for node i
createInitialNodes(d, rnd) ==
    LET count == Len(d.nodes)
    IN [i \in 1..count |->
          [id |-> d.nodes[i].id,
           x  |-> baseX(count, i - 1) + Jitter(cellWidth(count), rnd[i].rx),
           y  |-> baseY(count, i - 1) + Jitter(cellHeight(count), rnd[i].ry),
           vx |-> 0,
           vy |-> 0]]

\* ------------------------------------------------------------------------
\* graph-view.tsx: useGraphSimulation, the animation effect
\* ------------------------------------------------------------------------
RECURSIVE SumSeq(_)
SumSeq(s) == IF s = <<>> THEN 0 ELSE s[1] + SumSeq(Tail(s))

\* new Map(data.nodes.map((node, index) => [String(node.id), index])).get(s):
\* the last index carrying the key, 0 for undefined (indices are 1-based here)
indexById(d, s) ==
    LET hits == {i \in 1..Len(d.nodes) : String(d.nodes[i].id) = s}
    IN IF hits = {} THEN 0 ELSE CHOOSE i \in hits : \A j \in hits : j <= i

\* index pairs without the test `sourceIndex === targetIndex`
LinkPair_KeepsSelfLoops(d, link) ==
    LET sourceIndex == indexById(d, String(link.source))
        targetIndex == indexById(d, String(link.target))
    IN IF sourceIndex = 0 \/ targetIndex = 0
       THEN [sourceIndex |-> 0, targetIndex |-> 0]
       ELSE [sourceIndex |-> sourceIndex, targetIndex |-> targetIndex]

\* one entry per link of the payload, null (0, 0) where the code returns null
LinkPair(d, link) ==
    LET sourceIndex == indexById(d, String(link.source))
        targetIndex == indexById(d, String(link.target))
    IN IF sourceIndex = 0 \/ targetIndex = 0 \/ sourceIndex = targetIndex
       THEN [sourceIndex |-> 0, targetIndex |-> 0]
       ELSE [sourceIndex |-> sourceIndex, targetIndex |-> targetIndex]

\* the pre-resolved index pairs, nulls filtered out
SimLinks(d) ==
    SelectSeq([k \in 1..Len(d.links) |-> LinkPair(d, d.links[k])],
              LAMBDA p : p.sourceIndex # 0)

\* fx * DT, fy * DT of the repulsion between nodeA and nodeB
RepelImpulse(nodeA, nodeB) ==
    LET dx == nodeB.x - nodeA.x
        dy == nodeB.y - nodeA.y
        \* Math.sqrt(dx * dx + dy * dy + 0.01)
        dist == Norm(dx, dy, 100)
        ux == TDiv(dx * 1000, dist)
        uy == TDiv(dy * 1000, dist)
    IN [x |-> TDiv(TDiv(REPEL_STRENGTH * DT * ux, dist), dist),
        y |-> TDiv(TDiv(REPEL_STRENGTH * DT * uy, dist), dist)]

\* fx * DT, fy * DT of the spring between source and target
SpringImpulse(source, target) ==
    LET dx == target.x - source.x
        dy == target.y - source.y
        \* Math.sqrt(dx * dx + dy * dy) || 1
        d0 == Norm(dx, dy, 0)
        dist == IF d0 = 0 THEN Px(1) ELSE d0
        displacement == dist - Px(LINK_DISTANCE)
        ux == TDiv(dx * 1000, dist)
        uy == TDiv(dy * 1000, dist)
    IN [x |-> TDiv(TDiv(displacement * ux, 1000) * SPRING_STRENGTH * DT, 1000000),
        y |-> TDiv(TDiv(displacement * uy, 1000) * SPRING_STRENGTH * DT, 1000000)]

\* repulsion without the tests `nodeA.id !== draggingId`, `nodeB.id !== draggingId`
AfterRepel_PinnedToo(cur, n, draggingId) ==
    LET asA == [j \in 1..Len(cur) |->
                  IF j > n THEN RepelImpulse(cur[n], cur[j]) ELSE [x |-> 0, y |-> 0]]
        asB == [i \in 1..Len(cur) |->
                  IF i < n THEN RepelImpulse(cur[i], cur[n]) ELSE [x |-> 0, y |-> 0]]
    IN [vx |-> cur[n].vx - SumSeq([j \in 1..Len(cur) |-> asA[j].x])
                         + SumSeq([i \in 1..Len(cur) |-> asB[i].x]),
        vy |-> cur[n].vy - SumSeq([j \in 1..Len(cur) |-> asA[j].y])
                         + SumSeq([i \in 1..Len(cur) |-> asB[i].y])]

\* velocity of node n after step 1 (repulsion over all pairs i < j)
AfterRepel(cur, n, draggingId) ==
    IF cur[n].id = draggingId THEN [vx |-> cur[n].vx, vy |-> cur[n].vy]
    ELSE LET asA == [j \in 1..Len(cur) |->
                       IF j > n THEN RepelImpulse(cur[n], cur[j]) ELSE [x |-> 0, y |-> 0]]
             asB == [i \in 1..Len(cur) |->
                       IF i < n THEN RepelImpulse(cur[i], cur[n]) ELSE [x |-> 0, y |-> 0]]
         IN [vx |-> cur[n].vx - SumSeq([j \in 1..Len(cur) |-> asA[j].x])
                              + SumSeq([i \in 1..Len(cur) |-> asB[i].x]),
             vy |-> cur[n].vy - SumSeq([j \in 1..Len(cur) |-> asA[j].y])
                              + SumSeq([i \in 1..Len(cur) |-> asB[i].y])]

\* springs that give the target the impulse of the source, with the same sign
SpringDelta_SameSign(cur, links, n, draggingId) ==
    IF cur[n].id = draggingId THEN [vx |-> 0, vy |-> 0]
    ELSE LET f == [k \in 1..Len(links) |->
                     SpringImpulse(cur[links[k].sourceIndex], cur[links[k].targetIndex])]
             sgn(k) == (IF links[k].sourceIndex = n THEN 1 ELSE 0)
                       + (IF links[k].targetIndex = n THEN 1 ELSE 0)
         IN [vx |-> SumSeq([k \in 1..Len(links) |-> sgn(k) * f[k].x]),
             vy |-> SumSeq([k \in 1..Len(links) |-> sgn(k) * f[k].y])]

\* velocity change of node n in step 2 (springs over the pre-resolved links)
SpringDelta(cur, links, n, draggingId) ==
    IF cur[n].id = draggingId THEN [vx |-> 0, vy |-> 0]
    ELSE LET f == [k \in 1..Len(links) |->
                     SpringImpulse(cur[links[k].sourceIndex], cur[links[k].targetIndex])]
             sgn(k) == (IF links[k].sourceIndex = n THEN 1 ELSE 0)
                       - (IF links[k].targetIndex = n THEN 1 ELSE 0)
         IN [vx |-> SumSeq([k \in 1..Len(links) |-> sgn(k) * f[k].x]),
             vy |-> SumSeq([k \in 1..Len(links) |-> sgn(k) * f[k].y])]

\* the velocity clamp left out
ClampVelocity_Off(v) == v

\* if (speedSq > MAX_VELOCITY * MAX_VELOCITY) scale by MAX_VELOCITY / speed
ClampVelocity(v) ==
    LET over == IF Coarse(v.vx, v.vy) > 1 THEN TRUE
                ELSE v.vx * v.vx + v.vy * v.vy > Px(MAX_VELOCITY) * Px(MAX_VELOCITY)
        speed == NormUp(v.vx, v.vy)
    IN IF over THEN [vx |-> TDiv(v.vx * Px(MAX_VELOCITY), speed),
                     vy |-> TDiv(v.vy * Px(MAX_VELOCITY), speed)]
       ELSE v

\* the lower bound left out: Math.min(limit - BOUNDS_MARGIN, value)
ClampPosition_NoLower(value, limit) == Min(Px(limit - BOUNDS_MARGIN), value)

\* Math.max(BOUNDS_MARGIN, Math.min(limit - BOUNDS_MARGIN, value))
ClampPosition(value, limit) ==
    Max(Px(BOUNDS_MARGIN), Min(Px(limit - BOUNDS_MARGIN), value))

\* no damping
Damp_None(v) == v

\* node.vx *= DAMPING
Damp(v) == TDiv(v * DAMPING, 1000)

\* dx * CENTER_STRENGTH * DT, dx = centre - position
CenterImpulse(dx) == TDiv(dx * CENTER_STRENGTH * DT, 1000000)

\* step 3 for one node, v = its velocity after steps 1 and 2
Integrate(node, v, draggingId) ==
    IF node.id = draggingId
    THEN [node EXCEPT !.vx = Damp(v.vx),
                      !.vy = Damp(v.vy)]
    ELSE LET dx == Px(WIDTH) \div 2 - node.x
             dy == Px(HEIGHT) \div 2 - node.y
             cvx == v.vx + CenterImpulse(dx)
             cvy == v.vy + CenterImpulse(dy)
             w == ClampVelocity([vx |-> Damp(cvx),
                                 vy |-> Damp(cvy)])
         IN [node EXCEPT !.vx = w.vx,
                         !.vy = w.vy,
                         !.x = ClampPosition(node.x + w.vx, WIDTH),
                         !.y = ClampPosition(node.y + w.vy, HEIGHT)]

\* the body of tick() between `const updated = ...` and `nodesRef.current = updated`
SimStep(cur, links, draggingId) ==
    [n \in 1..Len(cur) |->
        LET r == AfterRepel(cur, n, draggingId)
            s == SpringDelta(cur, links, n, draggingId)
        IN Integrate(cur[n], [vx |-> r.vx + s.vx, vy |-> r.vy + s.vy], draggingId)]

\* ------------------------------------------------------------------------
\* tick() at a finer resolution, for runs of many ticks
\* ------------------------------------------------------------------------
\* Positions and velocities in units of 1/100000 px: the impulses of a tick
\* near rest are of the order of 0.001 px, below the hundredths of Px.  No
\* node is pinned (draggingId is null).
Fine(n) == Px(n) * 1000

\* a length in Fine units as tenths of a pixel
Tenths(a) == TDiv(a, Fine(1) \div 10)

\* fx * DT, fy * DT of the repulsion between nodeA and nodeB
FineRepelImpulse(nodeA, nodeB) ==
    LET dx == Tenths(nodeB.x - nodeA.x)
        dy == Tenths(nodeB.y - nodeA.y)
        \* dx * dx + dy * dy + 0.01, in tenths squared
        distSq == dx * dx + dy * dy + 1
        dist == ISqrt(distSq)
        \* (REPEL_STRENGTH / distSq) * DT
        force == TDiv(REPEL_STRENGTH * DT * (Fine(1) \div 10), distSq)
    IN [x |-> TDiv(force * dx, dist), y |-> TDiv(force * dy, dist)]

\* SPRING_STRENGTH * displacement * DT with SPRING_STRENGTH = 0
FineSpringForce_Off(displacement) == 0

\* SPRING_STRENGTH * displacement * DT
FineSpringForce(displacement) ==
    TDiv(displacement * ((SPRING_STRENGTH * DT) \div 40), 1000000 \div 40)

\* fx * DT, fy * DT of the spring between source and target
FineSpringImpulse(source, target) ==
    LET dx == target.x - source.x
        dy == target.y - source.y
        k == Coarse(dx, dy)
        \* Math.sqrt(dx * dx + dy * dy) || 1
        d0 == Norm(dx, dy, 0)
        dist == IF d0 = 0 THEN Fine(1) ELSE d0
        force == FineSpringForce(dist - Fine(LINK_DISTANCE))
    IN [x |-> TDiv(force * TDiv(dx, k), dist \div k),
        y |-> TDiv(force * TDiv(dy, k), dist \div k)]

\* dx * CENTER_STRENGTH * DT, dx = centre - position
FineCenterImpulse(dx) == TDiv(dx * ((CENTER_STRENGTH * DT) \div 40), 1000000 \div 40)

\* node.vx *= DAMPING
FineDamp(v) == TDiv(v * (DAMPING \div 40), 1000 \div 40)

\* if (speedSq > MAX_VELOCITY * MAX_VELOCITY) scale by MAX_VELOCITY / speed
FineClampVelocity(v) ==
    LET speed == NormUp(v.vx, v.vy)
    IN IF Norm(v.vx, v.vy, 0) > Fine(MAX_VELOCITY)
       THEN [vx |-> 100 * TDiv(TDiv(v.vx, 100) * (Fine(MAX_VELOCITY) \div 100), speed \div 100),
             vy |-> 100 * TDiv(TDiv(v.vy, 100) * (Fine(MAX_VELOCITY) \div 100), speed \div 100)]
       ELSE v

\* Math.max(BOUNDS_MARGIN, Math.min(limit - BOUNDS_MARGIN, value))
FineClampPosition(value, limit) ==
    Max(Fine(BOUNDS_MARGIN), Min(Fine(limit - BOUNDS_MARGIN), value))

\* the body of tick() between `const updated = ...` and `nodesRef.current = updated`
FineStep(cur, links) ==
    [n \in 1..Len(cur) |->
        LET asA == [j \in 1..Len(cur) |->
                      IF j > n THEN FineRepelImpulse(cur[n], cur[j]) ELSE [x |-> 0, y |-> 0]]
            asB == [i \in 1..Len(cur) |->
                      IF i < n THEN FineRepelImpulse(cur[i], cur[n]) ELSE [x |-> 0, y |-> 0]]
            f == [k \in 1..Len(links) |->
                    FineSpringImpulse(cur[links[k].sourceIndex], cur[links[k].targetIndex])]
            sgn(k) == (IF links[k].sourceIndex = n THEN 1 ELSE 0)
                      - (IF links[k].targetIndex = n THEN 1 ELSE 0)
            vx == cur[n].vx - SumSeq([j \in 1..Len(cur) |-> asA[j].x])
                            + SumSeq([i \in 1..Len(cur) |-> asB[i].x])
                            + SumSeq([k \in 1..Len(links) |-> sgn(k) * f[k].x])
            vy == cur[n].vy - SumSeq([j \in 1..Len(cur) |-> asA[j].y])
                            + SumSeq([i \in 1..Len(cur) |-> asB[i].y])
                            + SumSeq([k \in 1..Len(links) |-> sgn(k) * f[k].y])
            w == FineClampVelocity(
                     [vx |-> FineDamp(vx + FineCenterImpulse(Fine(WIDTH) \div 2 - cur[n].x)),
                      vy |-> FineDamp(vy + FineCenterImpulse(Fine(HEIGHT) \div 2 - cur[n].y))])
        IN [cur[n] EXCEPT !.vx = w.vx,
                          !.vy = w.vy,
                          !.x = FineClampPosition(cur[n].x + w.vx, WIDTH),
                          !.y = FineClampPosition(cur[n].y + w.vy, HEIGHT)]]

\* SimNode[] of the model in Fine units
ToFine(ns) ==
    [i \in 1..Len(ns) |->
        [id |-> ns[i].id, x |-> ns[i].x * 1000, y |-> ns[i].y * 1000,
         vx |-> ns[i].vx * 1000, vy |-> ns[i].vy * 1000]]

\* steps 1 and 2 of tick(): for each node the velocity change due to the
\* repulsion of its pairs and the change due to the springs of its links
TickImpulses(cur, links, draggingId) ==
    [n \in 1..Len(cur) |->
        [repel  |-> [vx |-> AfterRepel(cur, n, draggingId).vx - cur[n].vx,
                     vy |-> AfterRepel(cur, n, draggingId).vy - cur[n].vy],
         spring |-> SpringDelta(cur, links, n, draggingId)]]

\* ------------------------------------------------------------------------
\* graph-core.ts: createNodeMap, resolveLinks
\* ------------------------------------------------------------------------
\* createNodeMap(nodes).get(s): index of the node stored under key s (the last
\* one written), 0 for undefined
createNodeMap(ns, s) ==
    LET hits == {i \in 1..Len(ns) : String(ns[i].id) = s}
    IN IF hits = {} THEN 0 ELSE CHOOSE i \in hits : \A j \in hits : j <= i

\* endpoints looked up with ===, without String()
ResolveOne_Strict(ns, link) ==
    LET hit(id) == {i \in 1..Len(ns) : ns[i].id = id}
        last(h) == IF h = {} THEN 0 ELSE CHOOSE i \in h : \A j \in h : j <= i
    IN IF hit(link.source) = {} \/ hit(link.target) = {}
       THEN [link |-> link, source |-> 0, target |-> 0]
       ELSE [link |-> link, source |-> last(hit(link.source)),
             target |-> last(hit(link.target))]

\* one entry per link, source = 0 where the code returns null
ResolveOne(ns, link) ==
    LET source == createNodeMap(ns, String(link.source))
        target == createNodeMap(ns, String(link.target))
    IN IF source = 0 \/ target = 0
       THEN [link |-> link, source |-> 0, target |-> 0]
       ELSE [link |-> link, source |-> source, target |-> target]

\* source and target are indices into ns (the live node references)
resolveLinks(d, ns) ==
    IF "null" \in DOMAIN d THEN <<>>
    ELSE SelectSeq([k \in 1..Len(d.links) |-> ResolveOne(ns, d.links[k])],
                   LAMBDA r : r.source # 0)

\* ------------------------------------------------------------------------
\* graph-core.ts: nodeMatchesSearchTerm; GraphView: normalizedSearch
\* ------------------------------------------------------------------------
\* The strings of labels, property keys and values, search terms and the ids
\* searched are sequences of one-character strings; a GraphNode has the field
\* label or properties only if it is defined; properties is the sequence of
\* Object.entries.
toLowerChar(c) == CASE c = "A" -> "a" [] c = "B" -> "b" [] OTHER -> c

\* String.prototype.toLowerCase
toLowerCase(str) == [i \in 1..Len(str) |-> toLowerChar(str[i])]

RECURSIVE trimStart(_)
trimStart(str) ==
    IF str # <<>> /\ Head(str) = " " THEN trimStart(Tail(str)) ELSE str

RECURSIVE trimEnd(_)
trimEnd(str) ==
    IF str # <<>> /\ str[Len(str)] = " " THEN trimEnd(SubSeq(str, 1, Len(str) - 1)) ELSE str

\* String.prototype.trim
trim(str) == trimEnd(trimStart(str))

\* String.prototype.includes
includes(str, searchString) ==
    \E o \in 0..(Len(str) - Len(searchString)) :
        SubSeq(str, o + 1, o + Len(searchString)) = searchString

\* searchTerm.trim().toLowerCase()
normalizedSearch(searchTerm) == toLowerCase(trim(searchTerm))

\* `${key} ${String(value)}`.toLowerCase()
combined(entry) == toLowerCase(entry.key \o <<" ">> \o String(entry.value))

\* without `if (!normalizedSearch) return false`
nodeMatchesSearchTerm_NoEmptyGuard(node, term) ==
    IF includes(toLowerCase(String(node.id)), term) THEN TRUE
    ELSE IF "label" \in DOMAIN node /\ node.label # <<>>
            /\ includes(toLowerCase(node.label), term) THEN TRUE
    ELSE IF "properties" \in DOMAIN node
    THEN \E k \in 1..Len(node.properties) : includes(combined(node.properties[k]), term)
    ELSE FALSE

nodeMatchesSearchTerm(node, term) ==
    IF term = <<>> THEN FALSE
    ELSE IF includes(toLowerCase(String(node.id)), term) THEN TRUE
    ELSE IF "label" \in DOMAIN node /\ node.label # <<>>
            /\ includes(toLowerCase(node.label), term) THEN TRUE
    ELSE IF "properties" \in DOMAIN node
    THEN \E k \in 1..Len(node.properties) : includes(combined(node.properties[k]), term)
    ELSE FALSE

\* ------------------------------------------------------------------------
\* graph-core.ts: buildLabelColorMap
\* ------------------------------------------------------------------------
CHART_COLORS ==
    <<"var(--chart-1)", "var(--chart-2)", "var(--chart-3)", "var(--chart-4)",
      "var(--chart-5)">>

\* the UTF-16 code unit of a character
CodeUnit(c) ==
    CASE c = " " -> 32 [] c = "1" -> 49 [] c = "2" -> 50 [] c = "A" -> 65
      [] c = "B" -> 66 [] c = "a" -> 97 [] c = "b" -> 98

RECURSIVE LessStr(_, _)
\* a < b as the default comparator of Array.prototype.sort orders strings
LessStr(a, b) ==
    IF b = <<>> THEN FALSE
    ELSE IF a = <<>> THEN TRUE
    ELSE IF CodeUnit(Head(a)) # CodeUnit(Head(b)) THEN CodeUnit(Head(a)) < CodeUnit(Head(b))
    ELSE LessStr(Tail(a), Tail(b))

\* data.nodes.map((node) => node.label).filter((label) => Boolean(label))
PresentLabels(d) ==
    LET labelled == SelectSeq(d.nodes, LAMBDA n : "label" \in DOMAIN n /\ n.label # <<>>)
    IN [i \in 1..Len(labelled) |-> labelled[i].label]

RECURSIVE Dedupe(_)
\* Array.from(new Set(seq)): first occurrences, in insertion order
Dedupe(seq) ==
    IF seq = <<>> THEN <<>>
    ELSE LET front == Dedupe(SubSeq(seq, 1, Len(seq) - 1))
             last == seq[Len(seq)]
         IN IF \E i \in 1..Len(front) : front[i] = last THEN front
            ELSE Append(front, last)

\* the position of x in the ascending sequence sorted
InsertSorted(x, sorted) ==
    LET before == SelectSeq(sorted, LAMBDA y : ~LessStr(x, y))
        after == SelectSeq(sorted, LAMBDA y : LessStr(x, y))
    IN before \o <<x>> \o after

\* the labels left in insertion order
sort_None(seq) == seq

RECURSIVE sort(_)
\* Array.prototype.sort() without a comparator
sort(seq) ==
    IF seq = <<>> THEN <<>>
    ELSE InsertSorted(seq[Len(seq)], sort(SubSeq(seq, 1, Len(seq) - 1)))

\* the Map as a function from label to colour
buildLabelColorMap(d) ==
    IF "null" \in DOMAIN d THEN [l \in {} |-> ""]
    ELSE LET labels == sort(Dedupe(PresentLabels(d)))
             index(l) == CHOOSE i \in 1..Len(labels) : labels[i] = l
         IN [l \in {labels[i] : i \in 1..Len(labels)} |->
                CHART_COLORS[((index(l) - 1) % Len(CHART_COLORS)) + 1]]

\* ------------------------------------------------------------------------
\* /api/graph: GET and POST
\* ------------------------------------------------------------------------
\* A value of a result record is a Neo4j Node [kind |-> "node", identity,
\* labels], a Relationship [kind |-> "rel", identity, start, end] or anything
\* else [kind |-> "other"].  A Map<string, GraphNode> is the sequence of its
\* values in insertion order; the key of a value is its id.  The type and the
\* properties of a link are left out.
MapHas(nodeMap, id) == \E i \in 1..Len(nodeMap) : nodeMap[i].id = id

\* Map.prototype.set: a key already present keeps its place
MapSet(nodeMap, node) ==
    IF MapHas(nodeMap, node.id)
    THEN [i \in 1..Len(nodeMap) |-> IF nodeMap[i].id = node.id THEN node ELSE nodeMap[i]]
    ELSE Append(nodeMap, node)

\* { id, label: node.labels?.[0], properties: node.properties }, as JSON
GraphNodeOf(node) ==
    IF node.labels = <<>>
    THEN [id |-> StrId(node.identity), properties |-> <<>>]
    ELSE [id |-> StrId(node.identity), label |-> node.labels[1], properties |-> <<>>]

\* GET: if (!nodeMap.has(id)) nodeMap.set(id, {...})
GET_addNode(nodeMap, node) ==
    IF MapHas(nodeMap, StrId(node.identity)) THEN nodeMap
    ELSE MapSet(nodeMap, GraphNodeOf(node))

RECURSIVE GET_records(_, _)
\* for (const record of result.records): addNode(n); addNode(m); links.push(...)
GET_records(records, acc) ==
    IF records = <<>> THEN acc
    ELSE LET n == Head(records)[1]
             r == Head(records)[2]
             m == Head(records)[3]
         IN GET_records(Tail(records),
                [nodeMap |-> GET_addNode(GET_addNode(acc.nodeMap, n), m),
                 links   |-> Append(acc.links,
                                 [id |-> StrId(r.identity),
                                  source |-> StrId(n.identity),
                                  target |-> StrId(m.identity)])])

\* the body of the 200 response of GET /api/graph
GET(records) ==
    LET acc == GET_records(records, [nodeMap |-> <<>>, links |-> <<>>])
    IN [nodes |-> acc.nodeMap, links |-> acc.links]

\* POST: nodeMap.set(id, {...}) always
POST_addNode(acc, node) == [acc EXCEPT !.nodeMap = MapSet(@, GraphNodeOf(node))]

\* if (!nodeMap.has(id)) nodeMap.set(id, { id })
Placeholder(nodeMap, id) ==
    IF MapHas(nodeMap, id) THEN nodeMap ELSE MapSet(nodeMap, [id |-> id])

\* a relationship that adds its link only
POST_addRelationship_NoPlaceholder(acc, rel) ==
    [nodeMap |-> acc.nodeMap,
     links   |-> Append(acc.links,
                     [id |-> StrId(rel.identity), source |-> StrId(rel.start),
                      target |-> StrId(rel.end)])]

POST_addRelationship(acc, rel) ==
    [nodeMap |-> Placeholder(Placeholder(acc.nodeMap, StrId(rel.start)), StrId(rel.end)),
     links   |-> Append(acc.links,
                     [id |-> StrId(rel.identity), source |-> StrId(rel.start),
                      target |-> StrId(rel.end)])]

RECURSIVE POST_values(_, _)
\* for (const key of record.keys): addNode(v) or addRelationship(v) or neither
POST_values(values, acc) ==
    IF values = <<>> THEN acc
    ELSE LET v == Head(values)
         IN POST_values(Tail(values),
                IF v.kind = "node" THEN POST_addNode(acc, v)
                ELSE IF v.kind = "rel" THEN POST_addRelationship(acc, v)
                ELSE acc)

RECURSIVE POST_records(_, _)
\* for (const record of result.records)
POST_records(records, acc) ==
    IF records = <<>> THEN acc
    ELSE POST_records(Tail(records), POST_values(Head(records), acc))

\* the body of the 200 response of POST /api/graph
POST(records) ==
    LET acc == POST_records(records, [nodeMap |-> <<>>, links |-> <<>>])
    IN [nodes |-> acc.nodeMap, links |-> acc.links]

\* ------------------------------------------------------------------------
\* Inputs: payloads, pointer positions, Math.random() results, query texts
\* ------------------------------------------------------------------------
\* GraphResponse | null
NoData == [null |-> TRUE]

PayloadA ==
    [nodes |-> <<[id |-> StrId("1")], [id |-> StrId("2")]>>,
     links |-> <<[id |-> StrId("10"), source |-> StrId("1"), target |-> StrId("2")]>>]

PayloadB ==
    [nodes |-> <<[id |-> NumId("0")]>>,
     links |-> <<[id |-> StrId("11"), source |-> NumId("0"), target |-> StrId("9")]>>]

PayloadEmpty == [nodes |-> <<>>, links |-> <<>>]

Payloads == {PayloadA, PayloadB, PayloadEmpty}

\* a payload whose two node ids stringify identically: 1 (number) and "1" (string)
PayloadMixed == [nodes |-> <<[id |-> NumId("1")], [id |-> StrId("1")]>>, links |-> <<>>]

SimPayloads == Payloads \cup {PayloadMixed}

\* pointer positions in canvas coordinates (hundredths of a pixel): the top-left
\* corner of the svg, and a point 0.07 px from where the second of two nodes is
\* seeded when Math.random() returns 0
PointerPositions ==
    {[x |-> 0, y |-> 0], [x |-> 85127, y |-> 1600]}

\* Math.random() in thousandths, [0, 1)
RandVals == {0, 999}

RandPairs == [rx : RandVals, ry : RandVals]

QueryTexts == {"", " ", "MATCH (n) RETURN n"}

\* the query text taken as it is
Trim_None(q) == q

\* cypherQuery.trim()
Trim(q) == IF q = " " THEN "" ELSE q

\* string | null
NoMsg == "<null>"

\* SelectedEntity | null
NoSel == [type |-> "none"]

NoMove == [id |-> NoId, x |-> 0, y |-> 0]

\* ------------------------------------------------------------------------
\* Inputs of the helpers of graph-core.ts
\* ------------------------------------------------------------------------
MaxCoreNodes == 2
MaxCoreLinks == 2

SeqsUpTo(S, n) == UNION {[1..k -> S] : k \in 0..n}

\* node ids: 1 and "1" stringify identically
CoreNodeIds == {NumId("1"), StrId("1"), StrId("2")}

\* link endpoints: "9" is the id of no node
CoreEndpointIds == {NumId("1"), StrId("2"), StrId("9")}

LinkNames == <<"10", "11", "12", "13">>

\* GraphNode[] with the ids given
NodesWithIds(ids) == [i \in 1..Len(ids) |-> [id |-> ids[i]]]

\* GraphLink[] with the endpoints given
LinksWithEnds(e) ==
    [k \in 1..Len(e) |-> [id |-> StrId(LinkNames[k]), source |-> e[k][1], target |-> e[k][2]]]

\* SimNode[] of a payload with the ids given, as seeded
SimNodesOf(ids) ==
    createInitialNodes([nodes |-> NodesWithIds(ids), links |-> <<>>],
                       [i \in 1..Len(ids) |-> [rx |-> 0, ry |-> 0]])

\* resolveLinks(data, createNodeMap(nodes)) as GraphView calls it
ResolveArgs ==
    {[fn |-> "resolveLinks",
      d |-> [nodes |-> NodesWithIds(ids), links |-> LinksWithEnds(e)],
      ns |-> SimNodesOf(ids)] :
        ids \in SeqsUpTo(CoreNodeIds, MaxCoreNodes),
        e \in SeqsUpTo(CoreEndpointIds \X CoreEndpointIds, MaxCoreLinks)}
    \cup {[fn |-> "resolveLinks", d |-> NoData, ns |-> SimNodesOf(ids)] :
             ids \in SeqsUpTo(CoreNodeIds, MaxCoreNodes)}

MaxSeedNodes == 4

NodeNames == <<"1", "2", "3", "4", "5", "6", "7">>

\* a payload of n nodes with the ids "1", "2", ...
PayloadOfSize(n) ==
    [nodes |-> NodesWithIds([i \in 1..n |-> StrId(NodeNames[i])]), links |-> <<>>]

\* createInitialNodes(data) with the Math.random() results it draws
SeedArgs ==
    UNION {{[fn |-> "createInitialNodes", d |-> PayloadOfSize(n), rnd |-> r] :
               r \in [1..n -> RandPairs]} : n \in 0..MaxSeedNodes}

MaxTermLen == 3

SearchAlphabet == {"a", "A", " ", "1"}

\* the text of the search box
SearchTerms == SeqsUpTo(SearchAlphabet, MaxTermLen)

\* nodes with and without label and properties, with a number and a string
\* id, an empty label, no entries, and entries whose "key value" holds a space
SearchNodes ==
    {[id |-> NumId(<<"1">>)],
     [id |-> StrId(<<"A", "1">>)],
     [id |-> StrId(<<"2">>), label |-> <<"A", "a">>],
     [id |-> StrId(<<"2">>), label |-> <<>>],
     [id |-> StrId(<<"2">>), properties |-> <<>>],
     [id |-> StrId(<<"2">>),
      properties |-> <<[key |-> <<"a">>, value |-> NumId(<<"1">>)]>>],
     [id |-> StrId(<<"2">>), label |-> <<"b">>,
      properties |-> <<[key |-> <<"b">>, value |-> StrId(<<"A">>)],
                       [key |-> <<"1">>, value |-> StrId(<<" ", "a">>)]>>]}

SearchArgs ==
    {[fn |-> "nodeMatchesSearchTerm", node |-> n, searchTerm |-> t] :
        n \in SearchNodes, t \in SearchTerms}

MaxLabelNodes == 3

\* label?: string, undefined, empty or one of four names
LabelChoices ==
    {[has |-> FALSE]} \cup
    {[has |-> TRUE, s |-> l] : l \in {<<>>, <<"A">>, <<"a">>, <<"A", "B">>, <<"B">>}}

\* seven labels, in ascending order
SevenLabels == <<<<"1">>, <<"2">>, <<"A">>, <<"A", "B">>, <<"B">>, <<"a">>, <<"b">>>>

\* the seven labels in ascending, descending and mixed order
SevenLabelOrders ==
    {[i \in 1..7 |-> [has |-> TRUE, s |-> SevenLabels[o[i]]]] :
        o \in {<<1, 2, 3, 4, 5, 6, 7>>, <<7, 6, 5, 4, 3, 2, 1>>, <<4, 1, 7, 3, 6, 2, 5>>}}

\* GraphNode[] with the labels chosen
NodesWithLabels(cs) ==
    [i \in 1..Len(cs) |->
        IF cs[i].has THEN [id |-> StrId(NodeNames[i]), label |-> cs[i].s]
        ELSE [id |-> StrId(NodeNames[i])]]

LabelArgs ==
    {[fn |-> "buildLabelColorMap", d |-> [nodes |-> NodesWithLabels(cs), links |-> <<>>]] :
        cs \in SeqsUpTo(LabelChoices, MaxLabelNodes) \cup SevenLabelOrders}
    \cup {[fn |-> "buildLabelColorMap", d |-> NoData]}

MaxForceNodes == 3

\* node positions: two points 10 px apart, and one 500 px from the first
ForcePositions ==
    <<[x |-> Px(100), y |-> Px(100)], [x |-> Px(106), y |-> Px(108)],
      [x |-> Px(500), y |-> Px(400)]>>

\* SimNode[] at the positions chosen, each node with a velocity of its own
ForceNodes(ps) ==
    [i \in 1..Len(ps) |->
        [id |-> StrId(NodeNames[i]), x |-> ForcePositions[ps[i]].x,
         y |-> ForcePositions[ps[i]].y, vx |-> 10 * i, vy |-> -5]]

\* the links of a payload of n nodes: none, 1 -> 2, 2 -> 1 and 1 -> 2, or the
\* chain 1 -> 2 -> ... -> n
ForceLinks(n) ==
    IF n < 2 THEN {<<>>}
    ELSE {<<>>, <<<<1, 2>>>>, <<<<2, 1>>, <<1, 2>>>>, [k \in 1..(n - 1) |-> <<k, k + 1>>]}

\* the nodes, the payload and the pin that a tick finds
ForceArgs ==
    {[fn |-> "tick",
      cur |-> ForceNodes(ps),
      d |-> [nodes |-> NodesWithIds([i \in 1..Len(ps) |-> StrId(NodeNames[i])]),
             links |-> LinksWithEnds([k \in 1..Len(e) |->
                           <<StrId(NodeNames[e[k][1]]), StrId(NodeNames[e[k][2]])>>])],
      draggingId |-> id] :
        ps \in SeqsUpTo(1..3, MaxForceNodes),
        e \in ForceLinks(MaxForceNodes),
        id \in {NoId, StrId("1"), StrId("2")}}

MaxGraphRecords == 3

Neo4jNode(identity, labels) == [kind |-> "node", identity |-> identity, labels |-> labels]

Neo4jRel(identity, start, end) ==
    [kind |-> "rel", identity |-> identity, start |-> start, end |-> end]

\* the nodes "1" (labelled) and "2" (without a label)
Neo4jNodes == {Neo4jNode("1", <<"A">>), Neo4jNode("2", <<>>)}

\* relationships between "1", "2" and "3", a self-loop among them
Neo4jRels ==
    {Neo4jRel("10", "1", "2"), Neo4jRel("11", "2", "3"), Neo4jRel("12", "3", "3")}

\* the records of a query result: a single node, relationship or scalar, or
\* a path pattern (n, r, m), (r, m) or (n, r)
PostRecords ==
    {<<v>> : v \in Neo4jNodes \cup Neo4jRels \cup {[kind |-> "other"]}}
    \cup {<<Neo4jNode("1", <<"A">>), Neo4jRel("10", "1", "2"), Neo4jNode("2", <<>>)>>,
           <<Neo4jRel("11", "2", "3"), Neo4jNode("2", <<>>)>>,
           <<Neo4jNode("1", <<"A">>), Neo4jRel("10", "1", "2")>>}

\* the records <<n, r, m>> of MATCH (n)-[r]->(m) RETURN n, r, m: r runs from
\* n to m
GetRecords ==
    {<<n, Neo4jRel("10", n.identity, m.identity), m>> :
        n \in Neo4jNodes \cup {Neo4jNode("3", <<"A">>)}, m \in Neo4jNodes}

GraphArgs ==
    {[fn |-> "POST /api/graph", records |-> rs] : rs \in SeqsUpTo(PostRecords, MaxGraphRecords)}
    \cup {[fn |-> "GET /api/graph", records |-> rs] : rs \in SeqsUpTo(GetRecords, MaxGraphRecords)}

CoreArgs ==
    ResolveArgs \cup SeedArgs \cup SearchArgs \cup LabelArgs \cup ForceArgs \cup GraphArgs

\* ------------------------------------------------------------------------
\* State
\* ------------------------------------------------------------------------
VARIABLES
    mounted,        \* GraphView is mounted
    data,           \* useGraphData: data
    error,          \* useGraphData: error
    loading,        \* useGraphData: loading
    cypherQuery,    \* useGraphData: cypherQuery
    cypherError,    \* useGraphData: cypherError
    pending,        \* fetches in flight, in issue order: "default" | "query"
    nodes,          \* useGraphSimulation: nodes (published state)
    nodesRef,       \* useGraphSimulation: nodesRef.current
    draggedId,      \* useGraphSimulation: draggedId
    draggedIdRef,   \* useGraphSimulation: draggedIdRef.current
    selected,       \* GraphView: selected
    effectsPending, \* data was committed, the [data] effects have not run yet
    loops,          \* animation effects with a pending animation frame
    epoch,          \* number of animation effects started so far
    ticks,          \* number of ticks run (bounded by MaxTicks)
    fetches,        \* number of fetches issued (bounded by MaxFetches)
    lastOp,         \* history: the last step was a "tick", a fetch "fail", a
                    \* pointer-down that replaced a pin ("repin"), or "other"
    tickEpoch,      \* history: epoch of the loop that ran the last tick
    fresh,          \* history: nodesRef is as the reseed effect left it
    failed,         \* history: a fetch failed and none succeeded since
    moved,          \* history: last pointer-move of the current drag
    arg,            \* the arguments of a call of a helper of graph-core.ts
    ret,            \* the result of that call
    threads,        \* db.ts: the rows of the table threads
    messages,       \* db.ts: the rows of the table messages
    clock,          \* the time that new Date() reads, in calls made so far
    longRef,        \* nodesRef.current of a long run, in Fine units
    longTicks       \* number of ticks of the long run

vars == <<mounted, data, error, loading, cypherQuery, cypherError, pending,
          nodes, nodesRef, draggedId, draggedIdRef, selected, effectsPending,
          loops, epoch, ticks, fetches, lastOp, tickEpoch, fresh, failed, moved,
          arg, ret, threads, messages, clock, longRef, longTicks>>

viewVars == <<mounted, data, error, loading, cypherQuery, cypherError, pending,
              nodes, nodesRef, draggedId, draggedIdRef, selected, effectsPending,
              loops, epoch, ticks, fetches, lastOp, tickEpoch, fresh, failed, moved>>

coreVars == <<arg, ret>>

dbVars == <<threads, messages, clock>>

longVars == <<longRef, longTicks>>

\* no helper call is being looked at
NoArg == [fn |-> "none"]

NoRet == [done |-> FALSE]

dataVars == <<data, error, loading, cypherQuery, cypherError, pending, fetches, failed>>

simVars == <<nodes, nodesRef, loops, epoch, effectsPending, fresh>>

HasNodes(d) == d # NoData /\ Len(d.nodes) > 0

\* the canvas and the side panel rendered while loading, too
CanvasShown_WhileLoading ==
    /\ mounted
    /\ error = NoMsg
    /\ HasNodes(data)
    /\ Len(nodes) > 0

\* GraphView renders the canvas and the side panel (none of the early returns)
CanvasShown ==
    /\ mounted
    /\ ~loading
    /\ error = NoMsg
    /\ HasNodes(data)
    /\ Len(nodes) > 0

\* state after the first render and its effects: loadDefaultGraph() is in flight
InitialRender ==
    /\ mounted = TRUE
    /\ data = NoData
    /\ error = NoMsg
    /\ loading = TRUE
    /\ cypherQuery = ""
    /\ cypherError = NoMsg
    /\ pending = <<"default">>
    /\ nodes = <<>>
    /\ nodesRef = <<>>
    /\ draggedId = NoId
    /\ draggedIdRef = NoId
    /\ selected = NoSel
    /\ effectsPending = FALSE
    /\ loops = {}
    /\ epoch = 0
    /\ ticks = 0
    /\ fetches = 1
    /\ lastOp = "init"
    /\ tickEpoch = 0
    /\ fresh = FALSE
    /\ failed = FALSE
    /\ moved = NoMove

\* CREATE TABLE IF NOT EXISTS on a new database file
InitDb ==
    /\ threads = {}
    /\ messages = {}
    /\ clock = 0

\* no long run
InitLong ==
    /\ longRef = <<>>
    /\ longTicks = 0

Init ==
    /\ InitialRender
    /\ InitDb
    /\ InitLong
    /\ arg = NoArg
    /\ ret = NoRet

\* ------------------------------------------------------------------------
\* useGraphSimulation: the effects keyed on [data]
\* ------------------------------------------------------------------------
\* a cleanup that cancels nothing
CancelLoop_None(ls, e) == ls

\* cleanup of the animation effect number e: cancelAnimationFrame(animationFrame)
CancelLoop(ls, e) == {l \in ls : l.epoch # e}

\* the reseed effect: the new nodesRef.current (and published nodes)
Reseed(d, rnd) == IF ~HasNodes(d) THEN <<>> ELSE createInitialNodes(d, rnd)

\* an animation effect without the empty-data guard
StartLoop_Always(ls, d, e) == ls \cup {[epoch |-> e, data |-> d, frameCount |-> 0]}

\* the animation effect: requestAnimationFrame(tick) with frameCount = 0
StartLoop(ls, d, e) ==
    IF ~HasNodes(d) THEN ls ELSE ls \cup {[epoch |-> e, data |-> d, frameCount |-> 0]}

RandomDraws(d) == IF HasNodes(d) THEN [1..Len(d.nodes) -> RandPairs] ELSE {<<>>}

\* cleanup of the previous [data] effects, then the reseed effect, then the
\* animation effect, for the committed value of data
RunDataEffects(d) ==
    \E initialNodes \in {Reseed(d, rnd) : rnd \in RandomDraws(d)} :
        /\ nodesRef' = initialNodes
        /\ nodes' = initialNodes
        /\ loops' = StartLoop(CancelLoop(loops, epoch), d, epoch + 1)
        /\ epoch' = IF HasNodes(d) THEN epoch + 1 ELSE epoch
        /\ effectsPending' = FALSE
        /\ fresh' = TRUE

\* React runs pending passive effects before it renders the update of a
\* discrete event (click, pointerdown, pointerup)
DiscreteEventFlush ==
    IF effectsPending THEN RunDataEffects(data) ELSE UNCHANGED simVars

\* passive effects of a commit caused by a fetch result run in a later task
FlushEffects ==
    /\ mounted
    /\ effectsPending
    /\ RunDataEffects(data)
    /\ moved' = NoMove
    /\ lastOp' = "other"
    /\ UNCHANGED <<mounted, dataVars, draggedId, draggedIdRef, selected, ticks, tickEpoch>>
    /\ UNCHANGED <<coreVars, dbVars, longVars>>

\* ------------------------------------------------------------------------
\* useGraphSimulation: tick, run by the animation frame of loop l
\* ------------------------------------------------------------------------
\* updated[sourceIndex] and updated[targetIndex] exist for every link
LinksInRange(links, cur) ==
    \A k \in 1..Len(links) :
        links[k].sourceIndex <= Len(cur) /\ links[k].targetIndex <= Len(cur)

\* publishing on every third frame
Publishes_EveryThird(frameCount) == frameCount % 3 = 0

\* if (frameCount % 2 === 0) setNodes(updated)
Publishes(frameCount) == frameCount % 2 = 0

Tick(l) ==
    /\ l \in loops
    /\ ticks < MaxTicks
    /\ ticks' = ticks + 1
    /\ lastOp' = "tick"
    /\ tickEpoch' = l.epoch
    /\ IF nodesRef = <<>>
       THEN \* if (!current.length) { requestAnimationFrame(tick); return; }
            UNCHANGED <<nodes, nodesRef, loops, fresh>>
       ELSE IF ~LinksInRange(SimLinks(l.data), nodesRef)
       THEN \* reading .x of undefined throws: no write, no further frame
            /\ loops' = loops \ {l}
            /\ UNCHANGED <<nodes, nodesRef, fresh>>
       ELSE LET updated == SimStep(nodesRef, SimLinks(l.data), draggedIdRef)
                frameCount == l.frameCount + 1
            IN /\ nodesRef' = updated
               /\ nodes' = IF Publishes(frameCount) THEN updated ELSE nodes
               /\ loops' = (loops \ {l}) \cup {[l EXCEPT !.frameCount = frameCount]}
               /\ fresh' = FALSE
    /\ UNCHANGED <<mounted, dataVars, draggedId, draggedIdRef, selected,
                   effectsPending, epoch, moved>>
    /\ UNCHANGED <<coreVars, dbVars, longVars>>

\* ------------------------------------------------------------------------
\* useGraphSimulation: pointer handlers
\* ------------------------------------------------------------------------
\* current.map(node => node.id === draggedIdRef.current ? {...node, x, y, vx: 0, vy: 0} : node)
MoveDragged(cur, id, p) ==
    [n \in 1..Len(cur) |->
        IF cur[n].id = id
        THEN [cur[n] EXCEPT !.x = p.x, !.y = p.y, !.vx = 0, !.vy = 0]
        ELSE cur[n]]

\* handlePointerMove returns before writing anything
MoveIgnored(id, cur) == ~Truthy(id) \/ cur = <<>>

handlePointerMove(p) ==
    /\ CanvasShown
    /\ lastOp' = "other"
    /\ moved' = [id |-> draggedId, x |-> p.x, y |-> p.y]
    /\ IF MoveIgnored(draggedIdRef, nodesRef)
       THEN UNCHANGED <<nodes, nodesRef, fresh>>
       ELSE /\ nodesRef' = MoveDragged(nodesRef, draggedIdRef, p)
            /\ nodes' = MoveDragged(nodesRef, draggedIdRef, p)
            /\ fresh' = FALSE
    /\ UNCHANGED <<mounted, dataVars, draggedId, draggedIdRef, selected,
                   effectsPending, loops, epoch, ticks, tickEpoch>>
    /\ UNCHANGED <<coreVars, dbVars, longVars>>

\* also bound to onPointerLeave
handlePointerUp ==
    /\ CanvasShown
    /\ draggedId' = NoId
    /\ draggedIdRef' = NoId
    /\ lastOp' = "other"
    /\ DiscreteEventFlush
    /\ moved' = NoMove
    /\ UNCHANGED <<mounted, dataVars, selected, ticks, tickEpoch>>
    /\ UNCHANGED <<coreVars, dbVars, longVars>>

\* a pointer-down that leaves a pin already held where it is
handleNodePointerDown_KeepsFirst(i) ==
    /\ CanvasShown
    /\ i \in 1..Len(nodes)
    /\ draggedId' = IF draggedId = NoId THEN nodes[i].id ELSE draggedId
    /\ draggedIdRef' = IF draggedId = NoId THEN nodes[i].id ELSE draggedId
    /\ selected' = [type |-> "node", node |-> nodes[i].id]
    /\ lastOp' = IF draggedId \notin {NoId, nodes[i].id} THEN "repin" ELSE "other"
    /\ DiscreteEventFlush
    /\ moved' = NoMove
    /\ UNCHANGED <<mounted, dataVars, ticks, tickEpoch>>
    /\ UNCHANGED <<coreVars, dbVars, longVars>>

\* pointer-down on the glyph of the published node number i
handleNodePointerDown(i) ==
    /\ CanvasShown
    /\ i \in 1..Len(nodes)
    /\ draggedId' = nodes[i].id
    /\ draggedIdRef' = nodes[i].id
    /\ selected' = [type |-> "node", node |-> nodes[i].id]
    /\ lastOp' = IF draggedId \notin {NoId, nodes[i].id} THEN "repin" ELSE "other"
    /\ DiscreteEventFlush
    /\ moved' = NoMove
    /\ UNCHANGED <<mounted, dataVars, ticks, tickEpoch>>
    /\ UNCHANGED <<coreVars, dbVars, longVars>>

\* ------------------------------------------------------------------------
\* useGraphData: loadDefaultGraph, runCypherQuery and their results
\* ------------------------------------------------------------------------
RemoveAt(q, i) == SubSeq(q, 1, i - 1) \o SubSeq(q, i + 1, Len(q))

\* `Request failed with status ...` or the message of the thrown error
FailureMessage == "Request failed with status 500"

EmptyQueryMessage == "Please enter a Cypher query to run."

\* the part of the state a successful fetch writes: setData(json), setLoading(false)
ApplyPayload(p) ==
    /\ data' = p
    /\ loading' = FALSE
    /\ UNCHANGED <<error, cypherError>>

\* a failure that sets no message
ApplyFailure_Silent(kind) ==
    /\ loading' = FALSE
    /\ UNCHANGED <<data, error, cypherError>>

\* the part of the state a failed fetch writes: setError / setCypherError, setLoading(false)
ApplyFailure(kind) ==
    /\ loading' = FALSE
    /\ error' = IF kind = "default" THEN FailureMessage ELSE error
    /\ cypherError' = IF kind = "query" THEN FailureMessage ELSE cypherError
    /\ UNCHANGED data

\* the fetch number i of pending resolves with the payload p
FetchSucceed(i, p) ==
    /\ mounted
    /\ i \in 1..Len(pending)
    /\ ApplyPayload(p)
    /\ pending' = RemoveAt(pending, i)
    /\ effectsPending' = TRUE
    /\ failed' = FALSE
    /\ lastOp' = "other"
    /\ moved' = NoMove
    /\ UNCHANGED <<mounted, cypherQuery, fetches, nodes, nodesRef, draggedId,
                   draggedIdRef, selected, loops, epoch, ticks, tickEpoch, fresh>>
    /\ UNCHANGED <<coreVars, dbVars, longVars>>

\* the fetch number i of pending fails (network error or !res.ok)
FetchFail(i) ==
    /\ mounted
    /\ i \in 1..Len(pending)
    /\ ApplyFailure(pending[i])
    /\ pending' = RemoveAt(pending, i)
    /\ failed' = TRUE
    /\ lastOp' = "fail"
    /\ moved' = NoMove
    /\ UNCHANGED <<mounted, cypherQuery, fetches, simVars, draggedId,
                   draggedIdRef, selected, ticks, tickEpoch>>
    /\ UNCHANGED <<coreVars, dbVars, longVars>>

\* a fetch resolves after the component was unmounted: its setState calls are no-ops
FetchAfterUnmount(i) ==
    /\ ~mounted
    /\ i \in 1..Len(pending)
    /\ pending' = RemoveAt(pending, i)
    /\ lastOp' = "other"
    /\ UNCHANGED <<mounted, data, error, loading, cypherQuery, cypherError, fetches,
                   failed, simVars, draggedId, draggedIdRef, selected, ticks,
                   tickEpoch, moved>>
    /\ UNCHANGED <<coreVars, dbVars, longVars>>

\* ------------------------------------------------------------------------
\* GraphView: handlers of the side panel and the canvas
\* ------------------------------------------------------------------------
\* setSelected(null); await runCypherQuery(), as long as fewer than limit
\* fetches were issued
RunCypherClick(limit) ==
    /\ CanvasShown
    /\ selected' = NoSel
    /\ IF Trim(cypherQuery) = ""
       THEN /\ cypherError' = EmptyQueryMessage
            /\ UNCHANGED <<loading, pending, fetches>>
       ELSE /\ fetches < limit
            /\ loading' = TRUE
            /\ cypherError' = NoMsg
            /\ pending' = Append(pending, "query")
            /\ fetches' = fetches + 1
    /\ DiscreteEventFlush
    /\ lastOp' = "other"
    /\ moved' = NoMove
    /\ UNCHANGED <<mounted, data, error, cypherQuery, failed, draggedId,
                   draggedIdRef, ticks, tickEpoch>>
    /\ UNCHANGED <<coreVars, dbVars, longVars>>

handleRunCypherClick == RunCypherClick(MaxFetches)

\* a Reset that also stops the animation loop of the payload on display
handleResetClick_StopsLoop ==
    /\ CanvasShown
    /\ fetches < MaxFetches
    /\ selected' = NoSel
    /\ cypherQuery' = ""
    /\ loading' = TRUE
    /\ error' = NoMsg
    /\ cypherError' = NoMsg
    /\ pending' = Append(pending, "default")
    /\ fetches' = fetches + 1
    /\ IF effectsPending THEN RunDataEffects(data)
       ELSE loops' = {} /\ UNCHANGED <<nodes, nodesRef, epoch, effectsPending, fresh>>
    /\ lastOp' = "other"
    /\ moved' = NoMove
    /\ UNCHANGED <<mounted, data, failed, draggedId, draggedIdRef, ticks, tickEpoch>>
    /\ UNCHANGED <<coreVars, dbVars, longVars>>

\* setSelected(null); setCypherQuery(""); void loadDefaultGraph(), as long as
\* fewer than limit fetches were issued
ResetClick(limit) ==
    /\ CanvasShown
    /\ fetches < limit
    /\ selected' = NoSel
    /\ cypherQuery' = ""
    /\ loading' = TRUE
    /\ error' = NoMsg
    /\ cypherError' = NoMsg
    /\ pending' = Append(pending, "default")
    /\ fetches' = fetches + 1
    /\ DiscreteEventFlush
    /\ lastOp' = "other"
    /\ moved' = NoMove
    /\ UNCHANGED <<mounted, data, failed, draggedId, draggedIdRef, ticks, tickEpoch>>
    /\ UNCHANGED <<coreVars, dbVars, longVars>>

handleResetClick == ResetClick(MaxFetches)

\* the textarea's onChange
setCypherQuery(q) ==
    /\ CanvasShown
    /\ q # cypherQuery
    /\ cypherQuery' = q
    /\ DiscreteEventFlush
    /\ lastOp' = "other"
    /\ moved' = NoMove
    /\ UNCHANGED <<mounted, data, error, loading, cypherError, pending, fetches,
                   failed, draggedId, draggedIdRef, selected, ticks, tickEpoch>>
    /\ UNCHANGED <<coreVars, dbVars, longVars>>

\* onClick of the rendered link number k: setSelected({type: "link", link, source, target})
handleLinkClick(k) ==
    LET rl == resolveLinks(data, nodes)
    IN /\ CanvasShown
       /\ k \in 1..Len(rl)
       /\ selected' = [type |-> "link", link |-> rl[k].link.id,
                       source |-> nodes[rl[k].source].id,
                       target |-> nodes[rl[k].target].id]
       /\ DiscreteEventFlush
       /\ lastOp' = "other"
       /\ moved' = NoMove
       /\ UNCHANGED <<mounted, dataVars, draggedId, draggedIdRef, ticks, tickEpoch>>
       /\ UNCHANGED <<coreVars, dbVars, longVars>>

\* click on the svg background: setSelected(null)
handleBackgroundClick ==
    /\ CanvasShown
    /\ selected # NoSel
    /\ selected' = NoSel
    /\ DiscreteEventFlush
    /\ lastOp' = "other"
    /\ moved' = NoMove
    /\ UNCHANGED <<mounted, dataVars, draggedId, draggedIdRef, ticks, tickEpoch>>
    /\ UNCHANGED <<coreVars, dbVars, longVars>>

\* GraphView unmounts: the cleanup of the animation effect runs
Unmount ==
    /\ mounted
    /\ mounted' = FALSE
    /\ loops' = CancelLoop(loops, epoch)
    /\ lastOp' = "other"
    /\ moved' = NoMove
    /\ UNCHANGED <<dataVars, nodes, nodesRef, draggedId, draggedIdRef, selected,
                   effectsPending, epoch, ticks, tickEpoch, fresh>>
    /\ UNCHANGED <<coreVars, dbVars, longVars>>

\* The view as a whole: payload fetches and replacements, selection, query
\* text, pointer-down and pointer-up, ticks, unmount.  Pointer-moves are left
\* to SpecSim: together with payload replacement they multiply the state
\* space beyond what can be enumerated.
Next ==
    \/ FlushEffects
    \/ \E l \in loops : Tick(l)
    \/ handlePointerUp
    \/ \E i \in 1..Len(nodes) : handleNodePointerDown(i)
    \/ \E i \in 1..Len(pending), p \in Payloads : FetchSucceed(i, p)
    \/ \E i \in 1..Len(pending) : FetchFail(i)
    \/ \E i \in 1..Len(pending) : FetchAfterUnmount(i)
    \/ handleRunCypherClick
    \/ handleResetClick
    \/ \E q \in QueryTexts : setCypherQuery(q)
    \/ \E k \in 1..Len(resolveLinks(data, nodes)) : handleLinkClick(k)
    \/ handleBackgroundClick
    \/ Unmount

Spec == Init /\ [][Next]_vars

\* The data hook and the buttons of the side panel alone, with no tick and no
\* pointer event, over a longer sequence of fetches.
MaxDataFetches == 3

NextData ==
    \/ \E i \in 1..Len(pending), p \in Payloads : FetchSucceed(i, p)
    \/ \E i \in 1..Len(pending) : FetchFail(i)
    \/ \E i \in 1..Len(pending) : FetchAfterUnmount(i)
    \/ FlushEffects
    \/ RunCypherClick(MaxDataFetches)
    \/ ResetClick(MaxDataFetches)
    \/ \E q \in QueryTexts : setCypherQuery(q)
    \/ Unmount

SpecData == Init /\ [][NextData]_vars

\* The simulation of the first payload under every interleaving of ticks with
\* pointer-down, pointer-move and pointer-up.
NextSim ==
    \/ \E i \in 1..Len(pending), p \in SimPayloads : FetchSucceed(i, p)
    \/ \E i \in 1..Len(pending) : FetchFail(i)
    \/ FlushEffects
    \/ \E l \in loops : Tick(l)
    \/ \E p \in PointerPositions : handlePointerMove(p)
    \/ handlePointerUp
    \/ \E i \in 1..Len(nodes) : handleNodePointerDown(i)

SpecSim == Init /\ [][NextSim]_vars

\* ------------------------------------------------------------------------
\* The helpers of graph-core.ts, each called once on arguments drawn from
\* CoreArgs
\* ------------------------------------------------------------------------
InitCore ==
    /\ InitialRender
    /\ InitDb
    /\ InitLong
    /\ arg \in CoreArgs
    /\ ret = NoRet

Return(value) ==
    /\ ~ret.done
    /\ ret' = [done |-> TRUE, value |-> value]
    /\ UNCHANGED <<arg, viewVars, dbVars, longVars>>

\* const nodeMap = createNodeMap(nodes); resolveLinks(data, nodeMap)
CallResolveLinks ==
    /\ arg.fn = "resolveLinks"
    /\ Return(resolveLinks(arg.d, arg.ns))

\* createInitialNodes(data)
CallCreateInitialNodes ==
    /\ arg.fn = "createInitialNodes"
    /\ Return(createInitialNodes(arg.d, arg.rnd))

\* nodeMatchesSearchTerm(node, normalizedSearch)
CallNodeMatchesSearchTerm ==
    /\ arg.fn = "nodeMatchesSearchTerm"
    /\ Return(nodeMatchesSearchTerm(arg.node, normalizedSearch(arg.searchTerm)))

\* buildLabelColorMap(data)
CallBuildLabelColorMap ==
    /\ arg.fn = "buildLabelColorMap"
    /\ Return(buildLabelColorMap(arg.d))

\* steps 1 and 2 of tick() on nodesRef.current = arg.cur
CallTickImpulses ==
    /\ arg.fn = "tick"
    /\ Return(TickImpulses(arg.cur, SimLinks(arg.d), arg.draggingId))

\* GET /api/graph, session.run(...) resolving with arg.records
CallGET ==
    /\ arg.fn = "GET /api/graph"
    /\ Return(GET(arg.records))

\* POST /api/graph with a valid query, session.run(...) resolving with arg.records
CallPOST ==
    /\ arg.fn = "POST /api/graph"
    /\ Return(POST(arg.records))

NextCore ==
    \/ CallGET
    \/ CallPOST
    \/ CallResolveLinks
    \/ CallCreateInitialNodes
    \/ CallNodeMatchesSearchTerm
    \/ CallBuildLabelColorMap
    \/ CallTickImpulses

SpecCore == InitCore /\ [][NextCore]_vars

\* ------------------------------------------------------------------------
\* db.ts: threads and messages
\* ------------------------------------------------------------------------
\* A row of threads is [id, userId, title, archived, createdAt, updatedAt], a
\* row of messages [id, threadId, content, createdAt]; id is the primary key
\* of both tables.  The role of a message is left out.  The result of a
\* SELECT is the set of its rows: ORDER BY is a function of the rows.
MaxDbCalls == 4

DbUsers == {"A", "B", "local-dev"}

ThreadIds == {"t1", "t2"}

MessageIds == {"m1", "m2"}

\* id and title of createThread are optional
Undefined == "undefined"

DbTitles == {Undefined, " ", "T"}

DbUpdates == {[title |-> "T"], [title |-> " ", archived |-> TRUE], [archived |-> FALSE]}

DbMessages ==
    {[id |-> i, threadId |-> t, content |-> c, createdAt |-> 0] :
        i \in MessageIds, t \in ThreadIds, c \in {"c1", "c2"}}

\* SELECT ... FROM threads WHERE userId = ? ORDER BY updatedAt DESC
getThreads(userId) == {row \in threads : row.userId = userId}

\* SELECT m.* FROM messages m JOIN threads t ON t.id = m.threadId
\* WHERE m.threadId = ? AND t.userId = ? ORDER BY m.createdAt ASC
getMessages(userId, threadId) ==
    {msg \in messages :
        /\ msg.threadId = threadId
        /\ \E t \in threads : t.id = msg.threadId /\ t.userId = userId}

\* SELECT ... FROM threads WHERE id = ? AND userId = ?
OwnsThread(userId, id) == \E row \in threads : row.id = id /\ row.userId = userId

\* title?.trim() || "Chat"
ThreadTitle(title) ==
    IF title = Undefined \/ Trim(title) = "" THEN "Chat" ELSE Trim(title)

\* INSERT OR REPLACE INTO threads: the row that holds the primary key goes
InsertOrReplaceThread(rows, row) == {r \in rows : r.id # row.id} \cup {row}

\* FOREIGN KEY (threadId) REFERENCES threads(id) ON DELETE CASCADE, with
\* foreign_keys = ON: the messages of a thread row that was deleted go
Cascade(msgs, rows) == {msg \in msgs : \E r \in rows : r.id = msg.threadId}

\* createThread(userId, id, title)
createThread(userId, id, title) ==
    /\ clock < MaxDbCalls
    /\ clock' = clock + 1
    /\ \E threadId \in ThreadIds :
         /\ IF id = Undefined
            THEN \A r \in threads : r.id # threadId     \* crypto.randomUUID()
            ELSE threadId = id
         /\ LET now == clock
                fresh_row == [id |-> threadId, userId |-> userId,
                              title |-> ThreadTitle(title), archived |-> FALSE,
                              createdAt |-> now, updatedAt |-> now]
                \* INSERT OR IGNORE INTO threads
                inserted == IF \E r \in threads : r.id = threadId
                            THEN threads ELSE threads \cup {fresh_row}
                \* UPDATE threads SET userId = ? WHERE id = ? AND userId = 'local-dev'
                migrated == {IF r.id = threadId /\ r.userId = "local-dev"
                             THEN [r EXCEPT !.userId = userId] ELSE r : r \in inserted}
                \* row: SELECT ... WHERE id = ? AND userId = ?
                row == \E r \in migrated : r.id = threadId /\ r.userId = userId
            IN IF row
               THEN /\ threads' = migrated
                    /\ messages' = messages
               ELSE \* the final fallback
                    /\ threads' = InsertOrReplaceThread(migrated, fresh_row)
                    /\ messages' = Cascade(messages, {r \in migrated : r.id # threadId})
    /\ UNCHANGED <<viewVars, coreVars, longVars>>

\* updateThread(userId, id, updates)
updateThread(userId, id, updates) ==
    /\ clock < MaxDbCalls
    /\ clock' = clock + 1
    /\ threads' =
         {IF r.id = id /\ r.userId = userId
          THEN [r EXCEPT
                  !.title = IF "title" \in DOMAIN updates
                            THEN (IF Trim(updates.title) = "" THEN "Chat"
                                  ELSE Trim(updates.title))
                            ELSE @,
                  !.archived = IF "archived" \in DOMAIN updates
                               THEN updates.archived ELSE @,
                  !.updatedAt = clock]
          ELSE r : r \in threads}
    /\ UNCHANGED <<messages, viewVars, coreVars, longVars>>

\* deleteThread(userId, id)
deleteThread(userId, id) ==
    /\ clock < MaxDbCalls
    /\ clock' = clock + 1
    /\ threads' = {r \in threads : ~(r.id = id /\ r.userId = userId)}
    /\ messages' = Cascade(messages, threads')
    /\ UNCHANGED <<viewVars, coreVars, longVars>>

\* appendMessage(userId, message)
appendMessage(userId, message) ==
    /\ clock < MaxDbCalls
    /\ clock' = clock + 1
    /\ IF ~OwnsThread(userId, message.threadId)
       THEN UNCHANGED <<threads, messages>>
       ELSE \* INSERT OR REPLACE INTO messages, then UPDATE threads SET updatedAt
            /\ messages' = {msg \in messages : msg.id # message.id} \cup {message}
            /\ threads' = {IF r.id = message.threadId
                            THEN [r EXCEPT !.updatedAt = clock] ELSE r : r \in threads}
    /\ UNCHANGED <<viewVars, coreVars, longVars>>

\* deleteMessagesByThreadId(userId, threadId)
deleteMessagesByThreadId(userId, threadId) ==
    /\ clock < MaxDbCalls
    /\ clock' = clock + 1
    /\ messages' = IF OwnsThread(userId, threadId)
                   THEN {msg \in messages : msg.threadId # threadId}
                   ELSE messages
    /\ UNCHANGED <<threads, viewVars, coreVars, longVars>>

\* a call of db.ts made for the user userId
DbCall(userId) ==
    \/ \E id \in ThreadIds \cup {Undefined}, title \in DbTitles :
          createThread(userId, id, title)
    \/ \E id \in ThreadIds, updates \in DbUpdates : updateThread(userId, id, updates)
    \/ \E id \in ThreadIds : deleteThread(userId, id)
    \/ \E message \in DbMessages : appendMessage(userId, message)
    \/ \E threadId \in ThreadIds : deleteMessagesByThreadId(userId, threadId)

NextDb ==
    \/ \E userId \in DbUsers, id \in ThreadIds \cup {Undefined}, title \in DbTitles :
          createThread(userId, id, title)
    \/ \E userId \in DbUsers, id \in ThreadIds, updates \in DbUpdates :
          updateThread(userId, id, updates)
    \/ \E userId \in DbUsers, id \in ThreadIds : deleteThread(userId, id)
    \/ \E userId \in DbUsers, message \in DbMessages : appendMessage(userId, message)
    \/ \E userId \in DbUsers, threadId \in ThreadIds :
          deleteMessagesByThreadId(userId, threadId)

SpecDb == Init /\ [][NextDb]_vars

\* ------------------------------------------------------------------------
\* A long run: two nodes and one link, never dragged
\* ------------------------------------------------------------------------
MaxLongTicks == 1200

\* the reseed effect for PayloadA: the two nodes in the corners of the grid,
\* far apart, with zero velocity
InitLongRun ==
    /\ InitialRender
    /\ InitDb
    /\ arg = NoArg
    /\ ret = NoRet
    /\ longRef \in {ToFine(createInitialNodes(PayloadA, rnd)) : rnd \in RandomDraws(PayloadA)}
    /\ longTicks = 0

\* one animation frame: nodesRef.current = updated
LongTick ==
    /\ longTicks < MaxLongTicks
    /\ longTicks' = longTicks + 1
    /\ longRef' = FineStep(longRef, SimLinks(PayloadA))
    /\ UNCHANGED <<viewVars, coreVars, dbVars>>

NextLong == LongTick

\* requestAnimationFrame(tick) at the end of every tick: the run is the
\* sequence of its ticks
SpecLong == InitLongRun /\ [][NextLong]_vars

\* ------------------------------------------------------------------------
\* Properties
\* ------------------------------------------------------------------------
InBounds(node) ==
    /\ node.x >= Px(BOUNDS_MARGIN) /\ node.x <= Px(WIDTH - BOUNDS_MARGIN)
    /\ node.y >= Px(BOUNDS_MARGIN) /\ node.y <= Px(HEIGHT - BOUNDS_MARGIN)

\* vx^2 + vy^2 <= MAX_VELOCITY^2
SpeedWithin(node) ==
    /\ Abs(node.vx) <= Px(MAX_VELOCITY)
    /\ Abs(node.vy) <= Px(MAX_VELOCITY)
    /\ node.vx * node.vx + node.vy * node.vy <= Px(MAX_VELOCITY) * Px(MAX_VELOCITY)

Pinned(node) == node.id = draggedIdRef

\* C1 (as claimed): after every tick every node of nodesRef, pinned or not,
\* lies within [BOUNDS_MARGIN, WIDTH - BOUNDS_MARGIN] x [BOUNDS_MARGIN, HEIGHT - BOUNDS_MARGIN].
C1_AllNodesInBounds ==
    lastOp = "tick" => \A n \in 1..Len(nodesRef) : InBounds(nodesRef[n])

\* C1 (amended): after every tick every node that was not pinned during that
\* tick lies within the bounds; the pinned node is not clamped.
C1_UnpinnedInBounds ==
    lastOp = "tick" =>
        \A n \in 1..Len(nodesRef) : ~Pinned(nodesRef[n]) => InBounds(nodesRef[n])

\* a tick has clamped an unpinned node onto the left bound while the pinned
\* node sits outside the bounds
C1_Witness ==
    /\ lastOp = "tick"
    /\ \E n \in 1..Len(nodesRef) :
          ~Pinned(nodesRef[n]) /\ nodesRef[n].x = Px(BOUNDS_MARGIN)
    /\ \E n \in 1..Len(nodesRef) :
          Pinned(nodesRef[n]) /\ ~InBounds(nodesRef[n])

\* C2: after every tick every node's velocity magnitude is at most
\* MAX_VELOCITY, the node pinned during the tick included.
C2_VelocityBounded ==
    lastOp = "tick" => \A n \in 1..Len(nodesRef) : SpeedWithin(nodesRef[n])

\* a tick has damped a pinned node that still moves faster than 30 px per tick
C2_Witness ==
    /\ lastOp = "tick"
    /\ \E n \in 1..Len(nodesRef) :
          Pinned(nodesRef[n]) /\ Abs(nodesRef[n].vx) > Px(30)

\* C3 (as claimed): createInitialNodes places every node within
\* [margin, WIDTH - margin] x [margin, HEIGHT - margin].
C3_SeedInsideMargins ==
    (fresh /\ ~effectsPending) =>
        \A n \in 1..Len(nodesRef) :
            /\ nodesRef[n].x >= Px(marginX) /\ nodesRef[n].x <= Px(WIDTH - marginX)
            /\ nodesRef[n].y >= Px(marginY) /\ nodesRef[n].y <= Px(HEIGHT - marginY)

\* C4 (as claimed): after pointer-down on X, pointer-move to P and a tick,
\* X is at exactly P, whatever the id of X.
C4_PinnedAtPointer ==
    (lastOp = "tick" /\ moved.id # NoId) =>
        \A n \in 1..Len(nodesRef) :
            nodesRef[n].id = moved.id =>
                nodesRef[n].x = moved.x /\ nodesRef[n].y = moved.y

\* C5: the loop of an old payload stops when a new payload is seeded or the
\* view unmounts: every pending animation frame belongs to the animation
\* effect of the current payload, at most one frame is pending, and every tick
\* that runs is a tick of that effect.
C5_OldLoopStopped ==
    /\ Cardinality(loops) <= 1
    /\ \A l \in loops :
          /\ mounted
          /\ l.epoch = epoch
          /\ ~effectsPending => l.data = data
    /\ lastOp = "tick" => tickEpoch = epoch

\* the loop of a second payload has ticked
C5_Witness == epoch = 2 /\ lastOp = "tick" /\ tickEpoch = 2

\* ns is a fresh seeding of the payload d: one node per payload node, in
\* order, at rest, within a tenth of a cell of its grid position
SeededFor(d, ns) ==
    IF ~HasNodes(d) THEN ns = <<>>
    ELSE /\ Len(ns) = Len(d.nodes)
         /\ \A i \in 1..Len(ns) :
               /\ ns[i].id = d.nodes[i].id
               /\ ns[i].vx = 0 /\ ns[i].vy = 0
               /\ 10 * Abs(ns[i].x - baseX(Len(ns), i - 1)) <= cellWidth(Len(ns))
               /\ 10 * Abs(ns[i].y - baseY(Len(ns), i - 1)) <= cellHeight(Len(ns))

\* C6: when the effects of a new payload have run, nodesRef (and the published
\* nodes) is exactly a fresh seeding of that payload: nothing of the previous
\* payload's positions or velocities is left.
C6_ReseedFromScratch ==
    (fresh /\ ~effectsPending) => SeededFor(data, nodesRef) /\ nodes = nodesRef

\* a second payload was seeded after the first one had been ticked
C6_Witness ==
    fresh /\ ~effectsPending /\ epoch = 2 /\ ticks > 0 /\ HasNodes(data)

\* C7 (as claimed): after a fetch failure, once no fetch is in flight, the view
\* offers an operation that loads a payload (Run query or Reset, both rendered
\* only with the canvas).
C7_Recoverable == (mounted /\ failed /\ pending = <<>>) => CanvasShown

\* C8 (as claimed): a failure is surfaced as a message, and from the failure
\* until the next successful payload no tick advances node state.
C8_NoSimulationAfterFailure ==
    /\ lastOp = "fail" => (error # NoMsg \/ cypherError # NoMsg)
    /\ failed => lastOp # "tick"

\* C8 (amended): a failure is surfaced as a message and leaves the payload as
\* it was: with no payload loaded there is nothing to simulate, with a payload
\* loaded its simulation goes on.
C8_FailureKeepsPayload ==
    /\ lastOp = "fail" => (error # NoMsg \/ cypherError # NoMsg) /\ ~loading
    /\ (failed /\ data = NoData) => nodesRef = <<>> /\ nodes = <<>> /\ loops = {}
    /\ (failed /\ mounted /\ HasNodes(data)) =>
          \E l \in loops : l.data = data /\ Len(nodesRef) = Len(data.nodes)

\* a tick of the loaded payload has run after a failed fetch
C8_Witness == failed /\ HasNodes(data) /\ lastOp = "tick"

\* C9: while a fetch is in flight the loop of the loaded payload is alive:
\* its animation frame is pending, and nodesRef still holds the nodes of that
\* payload.
C9_LoopSurvivesFetch ==
    (mounted /\ loading /\ HasNodes(data)) =>
        /\ ~effectsPending
        /\ \E l \in loops : l.epoch = epoch /\ l.data = data
        /\ Len(nodesRef) = Len(data.nodes)
        /\ \A n \in 1..Len(nodesRef) : nodesRef[n].id = data.nodes[n].id

\* a tick has advanced the loaded payload while a fetch was in flight
C9_Witness ==
    mounted /\ loading /\ pending # <<>> /\ HasNodes(data) /\ lastOp = "tick" /\ ~fresh

PayloadNodeIds(d) == IF HasNodes(d) THEN {String(d.nodes[i].id) : i \in 1..Len(d.nodes)} ELSE {}

PayloadLinkIds(d) ==
    IF d = NoData THEN {} ELSE {String(d.links[k].id) : k \in 1..Len(d.links)}

\* C10 (as claimed): a selected node, or a selected link and its two
\* endpoints, exist in the current payload.
C10_SelectionConsistent ==
    /\ selected.type = "node" => String(selected.node) \in PayloadNodeIds(data)
    /\ selected.type = "link" =>
          /\ String(selected.link) \in PayloadLinkIds(data)
          /\ String(selected.source) \in PayloadNodeIds(data)
          /\ String(selected.target) \in PayloadNodeIds(data)

\* ids of the nodes of ns that the tick's pinned test selects
PinnedIds(ns) == {ns[n].id : n \in {m \in 1..Len(ns) : Pinned(ns[m])}}

\* C11: at any instant at most one node of the node set (internal and
\* published) is pinned, and a pointer-down on a second node while a pin is
\* held moves the pin to that node: afterwards it is the only pinned node.
C11_AtMostOnePinned ==
    /\ Cardinality({n \in 1..Len(nodesRef) : Pinned(nodesRef[n])}) <= 1
    /\ Cardinality({n \in 1..Len(nodes) : Pinned(nodes[n])}) <= 1
    /\ lastOp = "repin" =>
          /\ selected.type = "node"
          /\ draggedIdRef = selected.node
          /\ PinnedIds(nodesRef) = {selected.node}

\* a pointer-down on a second node has replaced the pin held on the first
C11_Witness ==
    /\ lastOp = "repin"
    /\ Len(nodesRef) = 2
    /\ Cardinality({n \in 1..Len(nodesRef) : Pinned(nodesRef[n])}) = 1

\* C12 (as claimed): the pinned test and the pointer-move target test treat
\* ids as the same when they stringify identically: after a pointer-move to P
\* with a pin held on id a, and a tick, every node whose String(id) equals
\* String(a) is at P.
C12_IdsComparedAsStrings ==
    (lastOp = "tick" /\ Truthy(moved.id)) =>
        \A n \in 1..Len(nodesRef) :
            String(nodesRef[n].id) = String(moved.id) =>
                nodesRef[n].x = moved.x /\ nodesRef[n].y = moved.y

\* C14 (as claimed): when the effects of a new payload seed the simulation
\* (and the step is not a pointer-down on another node), no node of the new
\* node set is pinned.
C14_NoPinAfterReseed ==
    [][(effectsPending /\ ~effectsPending' /\ draggedIdRef' = draggedIdRef) =>
          \A n \in 1..Len(nodesRef') : nodesRef'[n].id # draggedIdRef']_vars

\* C15 (as claimed): whenever the canvas is rendered, the published node ids
\* are the node ids of the current payload.
C15_PublishedMatchesPayload ==
    CanvasShown => {String(nodes[i].id) : i \in 1..Len(nodes)} = PayloadNodeIds(data)

\* ids a pin can have been held on while the loop l ran
DragIds(l) == {NoId} \cup {l.data.nodes[i].id : i \in 1..Len(l.data.nodes)}

\* C16: within a loop the published nodes are the internal nodes after every
\* second tick (even frameCount), and in between the internal nodes are at
\* most one physics step ahead of the published ones.
C16_PublishedLagsAtMostOneTick ==
    \A l \in loops :
        IF l.frameCount % 2 = 0 THEN nodes = nodesRef
        ELSE \/ nodes = nodesRef
             \/ \E id \in DragIds(l) : nodesRef = SimStep(nodes, SimLinks(l.data), id)

\* the second tick of a loop has published a state that the first had not
C16_Witness ==
    /\ lastOp = "tick"
    /\ \E l \in loops : l.frameCount = 2
    /\ nodes = nodesRef
    /\ ~fresh
    /\ \E n \in 1..Len(nodes) : nodes[n].vx # 0

\* C17: a payload with zero nodes is a valid state: once its effects have run
\* the internal and the published node arrays are empty, no loop is running
\* and no tick has run for it, and no error message is set.
C17_EmptyPayloadIsValid ==
    (data # NoData /\ Len(data.nodes) = 0 /\ ~effectsPending) =>
        /\ createInitialNodes(data, <<>>) = <<>>
        /\ nodes = <<>> /\ nodesRef = <<>>
        /\ loops = {}
        /\ lastOp # "tick"
        /\ error = NoMsg /\ cypherError = NoMsg

\* an empty payload has replaced a payload that had been simulated
C17_Witness ==
    /\ data = PayloadEmpty /\ ~effectsPending /\ mounted
    /\ epoch >= 1 /\ ticks >= 1

Returned(fn) == ret.done /\ arg.fn = fn

\* the keys of createNodeMap(ns)
NodeKeys(ns) == {String(ns[i].id) : i \in 1..Len(ns)}

\* the link has both endpoints among the keys of the node map
BothEndsKnown(link, ns) ==
    String(link.source) \in NodeKeys(ns) /\ String(link.target) \in NodeKeys(ns)

\* C13: resolveLinks returns, in input order, one entry for each link whose
\* stringified endpoints are both keys of the node map and no entry for any
\* other link; each entry references the nodes stored under those keys; a
\* null payload yields the empty list.
C13_ResolveLinksDropsDangling ==
    Returned("resolveLinks") =>
        IF arg.d = NoData THEN ret.value = <<>>
        ELSE LET kept == SelectSeq(arg.d.links, LAMBDA link : BothEndsKnown(link, arg.ns))
             IN /\ Len(ret.value) = Len(kept)
                /\ \A k \in 1..Len(kept) :
                      /\ ret.value[k].link = kept[k]
                      /\ ret.value[k].source \in 1..Len(arg.ns)
                      /\ ret.value[k].target \in 1..Len(arg.ns)
                      /\ String(arg.ns[ret.value[k].source].id) = String(kept[k].source)
                      /\ String(arg.ns[ret.value[k].target].id) = String(kept[k].target)

\* of two links the dangling one was dropped, and the one kept has the number
\* 1 as its source, resolved to the node with the string id "1"
C13_Witness ==
    /\ Returned("resolveLinks")
    /\ arg.d # NoData
    /\ Len(arg.d.links) = 2
    /\ Len(ret.value) = 1
    /\ ret.value[1].link = arg.d.links[2]
    /\ ret.value[1].link.source = NumId("1")
    /\ arg.ns[ret.value[1].source].id = StrId("1")

\* C18: for N >= 2 nodes and every outcome of the jitter, createInitialNodes
\* places no two nodes at the same (x, y), in single-row grids (cellHeight 0)
\* as in grids of several rows.
C18_SeedsAreDistinct ==
    (Returned("createInitialNodes") /\ Len(arg.d.nodes) >= 2) =>
        /\ Len(ret.value) = Len(arg.d.nodes)
        /\ \A i, j \in 1..Len(ret.value) :
              i < j => ret.value[i].x # ret.value[j].x \/ ret.value[i].y # ret.value[j].y

\* four nodes seeded in two rows: the first and the fourth share the column
\* and the x coordinate, and the first three share the row and the jitter in y
C18_Witness ==
    /\ Returned("createInitialNodes")
    /\ Len(ret.value) = 4
    /\ GridRows(4) = 2
    /\ ret.value[1].x = ret.value[4].x
    /\ ret.value[1].y = ret.value[2].y /\ ret.value[2].y = ret.value[3].y

\* t occurs in h at some offset
IsSubstring(t, h) ==
    \E o \in 0..Len(h) :
        /\ o + Len(t) <= Len(h)
        /\ \A i \in 1..Len(t) : h[o + i] = t[i]

\* C19: nodeMatchesSearchTerm is false for every node when the normalized
\* term is empty (so for every blank or whitespace-only search text); for a
\* non-empty normalized term it is true exactly when the term is a substring
\* of the lower-cased String(id), of the lower-cased label, or of the
\* lower-cased "key value" of some property.
C19_SearchMatches ==
    Returned("nodeMatchesSearchTerm") =>
        LET node == arg.node
            term == normalizedSearch(arg.searchTerm)
        IN /\ (\A i \in 1..Len(arg.searchTerm) : arg.searchTerm[i] = " ") => term = <<>>
           /\ term = <<>> => ret.value = FALSE
           /\ term # <<>> =>
                 ret.value =
                     (\/ IsSubstring(term, toLowerCase(String(node.id)))
                      \/ "label" \in DOMAIN node /\ IsSubstring(term, toLowerCase(node.label))
                      \/ /\ "properties" \in DOMAIN node
                         /\ \E k \in 1..Len(node.properties) :
                               IsSubstring(term,
                                   toLowerCase(node.properties[k].key \o <<" ">>
                                               \o String(node.properties[k].value))))

\* the search text "A 1" matched a node through its property a = 1 only
C19_Witness ==
    /\ Returned("nodeMatchesSearchTerm")
    /\ arg.searchTerm = <<"A", " ", "1">>
    /\ "label" \notin DOMAIN arg.node
    /\ String(arg.node.id) = <<"2">>
    /\ ret.value = TRUE

\* the labels of the nodes of d that have one (a label that is undefined or
\* the empty string is no label)
LabelsIn(d) ==
    IF d = NoData THEN {}
    ELSE {d.nodes[i].label :
             i \in {j \in 1..Len(d.nodes) :
                       "label" \in DOMAIN d.nodes[j] /\ d.nodes[j].label # <<>>}}

\* the nodes of d in the order p
Permuted(d, p) == [d EXCEPT !.nodes = [i \in 1..Len(d.nodes) |-> d.nodes[p[i]]]]

\* C20: buildLabelColorMap maps exactly the distinct labels present in the
\* payload (a node without a label, that is with label undefined or empty,
\* contributes nothing), gives the label with k labels before it in
\* lexicographic order the palette colour number k mod 5, and returns the same
\* map for every permutation of the nodes.
C20_LabelColours ==
    Returned("buildLabelColorMap") =>
        LET present == LabelsIn(arg.d)
            rank(l) == Cardinality({other \in present : LessStr(other, l)})
        IN /\ DOMAIN ret.value = present
           /\ \A l \in present : ret.value[l] = CHART_COLORS[(rank(l) % 5) + 1]
           /\ arg.d # NoData =>
                 \A p \in Permutations(1..Len(arg.d.nodes)) :
                     buildLabelColorMap(Permuted(arg.d, p)) = ret.value

\* seven labels given in mixed order: the sixth in lexicographic order got the
\* first colour again
C20_Witness ==
    /\ Returned("buildLabelColorMap")
    /\ Cardinality(LabelsIn(arg.d)) = 7
    /\ arg.d.nodes[1].label = <<"A", "B">>
    /\ ret.value[<<"a">>] = "var(--chart-1)"
    /\ ret.value[<<"1">>] = "var(--chart-1)"

\* the step is a tick that ran the physics step: the loop's frameCount advanced
TickApplied ==
    /\ lastOp' = "tick"
    /\ \E l \in loops : [l EXCEPT !.frameCount = @ + 1] \in loops'

\* the node set is the single node X, on which a pin was held and released
ReleasedAlone ==
    /\ Len(nodesRef) = 1
    /\ draggedIdRef = NoId
    /\ selected.type = "node"
    /\ selected.node = nodesRef[1].id

\* vx^2 + vy^2
SpeedSq(node) == node.vx * node.vx + node.vy * node.vy

\* C21 (as claimed): after the pin on X is released, with no other node and no
\* link acting on X, no tick increases X's velocity magnitude.
C21_DampingOnlyDecay ==
    [][(TickApplied /\ ReleasedAlone) =>
          SpeedSq(nodesRef'[1]) <= SpeedSq(nodesRef[1])]_vars

\* C21 (amended): after the pin on X is released, with no other node and no
\* link acting on X, a tick first adds the centering impulse
\* CENTER_STRENGTH * DT * (centre - position) to X's velocity and then damps:
\* in each axis the new magnitude is at most DAMPING times the magnitude of
\* velocity plus centering impulse, and the direction is that of the sum.  The
\* velocity decays by the damping factor where the centering impulse
\* vanishes, and a node released at rest away from the centre speeds up.
C21_DampedCentering ==
    [][(TickApplied /\ ReleasedAlone) =>
          LET node == nodesRef[1]
              after == nodesRef'[1]
              sx == node.vx + CenterImpulse(Px(WIDTH) \div 2 - node.x)
              sy == node.vy + CenterImpulse(Px(HEIGHT) \div 2 - node.y)
          IN /\ 1000 * Abs(after.vx) <= DAMPING * Abs(sx)
             /\ 1000 * Abs(after.vy) <= DAMPING * Abs(sy)
             /\ after.vx * sx >= 0
             /\ after.vy * sy >= 0]_vars

\* the released node, the only one, has been ticked twice and is moving
C21_Witness ==
    /\ lastOp = "tick"
    /\ ReleasedAlone
    /\ ticks >= 2
    /\ nodesRef[1].vx # 0

\* C24: a tick leaves x and y of the node pinned during it unchanged, gives it
\* no repulsion, spring or centering impulse and multiplies its vx and vy by
\* DAMPING; every other node comes out exactly as it would with no pin held:
\* it receives the impulses of all its pairs and links, those shared with
\* the pinned node included.
C24_PinnedNodeFrame ==
    [][\A l \in loops :
          (lastOp' = "tick" /\ [l EXCEPT !.frameCount = @ + 1] \in loops') =>
              /\ Len(nodesRef') = Len(nodesRef)
              /\ \A n \in 1..Len(nodesRef) :
                    IF Pinned(nodesRef[n])
                    THEN nodesRef'[n] =
                             [nodesRef[n] EXCEPT !.vx = TDiv(@ * DAMPING, 1000),
                                                 !.vy = TDiv(@ * DAMPING, 1000)]
                    ELSE nodesRef'[n] = SimStep(nodesRef, SimLinks(l.data), NoId)[n]]_vars

\* a tick has run on two linked nodes while one of them, still moving, was
\* pinned: its velocity is damped, the other node has been pushed on
C24_Witness ==
    /\ lastOp = "tick"
    /\ data = PayloadA
    /\ Len(nodesRef) = 2
    /\ \E n \in 1..2 : Pinned(nodesRef[n]) /\ nodesRef[n].vx # 0
    /\ \E n \in 1..2 : ~Pinned(nodesRef[n]) /\ nodesRef[n].vx # 0

\* C25 (as claimed): a pointer-move with no pin held changes neither the
\* internal nor the published node array; a pointer-move to P while a pin is
\* held on X, whatever the id of X, puts X at P with velocity (0, 0), leaves
\* every other node as it was and publishes the result at once, and the
\* array the next tick reads (nodesRef) is the one containing the write.
C25_PointerMoveWrites ==
    [][\A p \in PointerPositions :
          handlePointerMove(p) =>
              IF draggedIdRef = NoId
              THEN nodesRef' = nodesRef /\ nodes' = nodes
              ELSE /\ nodesRef' =
                         [n \in 1..Len(nodesRef) |->
                             IF nodesRef[n].id = draggedIdRef
                             THEN [nodesRef[n] EXCEPT !.x = p.x, !.y = p.y,
                                                      !.vx = 0, !.vy = 0]
                             ELSE nodesRef[n]]
                   /\ nodes' = nodesRef']_vars

\* v . (b - a): positive where the velocity change v points from a towards b
Towards(v, a, b) == v.vx * (b.x - a.x) + v.vy * (b.y - a.y)

\* |b - a| compared with LINK_DISTANCE: -1, 0 or 1
RestSide(a, b) ==
    LET dSq == ((b.x - a.x) \div 100) * ((b.x - a.x) \div 100)
               + ((b.y - a.y) \div 100) * ((b.y - a.y) \div 100)
    IN IF dSq > LINK_DISTANCE * LINK_DISTANCE THEN 1
       ELSE IF dSq < LINK_DISTANCE * LINK_DISTANCE THEN -1 ELSE 0

\* C26: with no node pinned the repulsion of the pairs and the springs of the
\* links change the velocities by impulses that sum to zero over the nodes
\* (each pair and each link gives its two nodes equal and opposite impulses);
\* for two nodes the repulsion points away from the other node and the spring
\* of their link points towards it when they are further apart than
\* LINK_DISTANCE and away from it when they are closer; with one of the two
\* pinned, the pinned one receives nothing and the other one what it receives
\* with no pin.
C26_OpposingImpulses ==
    Returned("tick") =>
        LET cur == arg.cur
            r == ret.value
            N == Len(cur)
            pinned(n) == cur[n].id = arg.draggingId
            free == TickImpulses(cur, SimLinks(arg.d), NoId)
        IN /\ Len(r) = N
           /\ (\A n \in 1..N : ~pinned(n)) =>
                 /\ SumSeq([n \in 1..N |-> r[n].repel.vx]) = 0
                 /\ SumSeq([n \in 1..N |-> r[n].repel.vy]) = 0
                 /\ SumSeq([n \in 1..N |-> r[n].spring.vx]) = 0
                 /\ SumSeq([n \in 1..N |-> r[n].spring.vy]) = 0
           /\ (N = 2 /\ \A n \in 1..N : ~pinned(n)) =>
                 /\ Towards(r[1].repel, cur[1], cur[2]) <= 0
                 /\ Towards(r[2].repel, cur[2], cur[1]) <= 0
                 /\ RestSide(cur[1], cur[2]) = 1 =>
                       /\ Towards(r[1].spring, cur[1], cur[2]) >= 0
                       /\ Towards(r[2].spring, cur[2], cur[1]) >= 0
                 /\ RestSide(cur[1], cur[2]) = -1 =>
                       /\ Towards(r[1].spring, cur[1], cur[2]) <= 0
                       /\ Towards(r[2].spring, cur[2], cur[1]) <= 0
           /\ \A n \in 1..N :
                 IF pinned(n)
                 THEN r[n] = [repel |-> [vx |-> 0, vy |-> 0], spring |-> [vx |-> 0, vy |-> 0]]
                 ELSE r[n] = free[n]

\* three nodes in a chain of two links, none pinned: the first two, 10 px
\* apart, repel each other and their spring pushes them apart, the spring to
\* the third, 500 px away, pulls the second towards it
C26_Witness ==
    /\ Returned("tick")
    /\ arg.draggingId = NoId
    /\ Len(arg.cur) = 3
    /\ Len(SimLinks(arg.d)) = 2
    /\ Towards(ret.value[1].repel, arg.cur[1], arg.cur[2]) < 0
    /\ Towards(ret.value[1].spring, arg.cur[1], arg.cur[2]) < 0
    /\ Towards(ret.value[3].spring, arg.cur[3], arg.cur[2]) > 0
    /\ ret.value[2].spring.vx # 0

\* C28: Run query and Reset being rendered only with the canvas, at most one
\* payload fetch is in flight at any time, and while the view is mounted the
\* loading flag is true exactly while a fetch is in flight; so a fetch that
\* completes is the one issued last.
C28_OneFetchInFlight ==
    /\ Len(pending) <= 1
    /\ mounted => (loading <=> pending # <<>>)

\* a third fetch, a query, is in flight while a payload is loaded
C28_Witness ==
    /\ mounted /\ loading
    /\ pending = <<"query">>
    /\ fetches = 3
    /\ HasNodes(data)

\* the query text is empty or only whitespace
Blank(q) == q \in {"", " "}

\* C30: Run query on an empty or whitespace-only text issues no fetch and
\* leaves the payload, the loading flag, the load-error message and the pin
\* unchanged; it sets the query error message and clears the selection.  The
\* handler writes no simulation state: the node arrays and the loop are
\* unchanged, unless the effects of a payload committed before the click were
\* still pending, which run before the click is handled as before any click.
C30_BlankQueryIssuesNoFetch ==
    [][(handleRunCypherClick /\ Blank(cypherQuery)) =>
          /\ pending' = pending /\ fetches' = fetches
          /\ data' = data /\ loading' = loading /\ error' = error
          /\ cypherQuery' = cypherQuery
          /\ cypherError' = EmptyQueryMessage
          /\ selected' = NoSel
          /\ draggedId' = draggedId /\ draggedIdRef' = draggedIdRef
          /\ ~effectsPending =>
                nodes' = nodes /\ nodesRef' = nodesRef /\ loops' = loops /\ epoch' = epoch]_vars

\* Run query was clicked on a whitespace-only text while the simulation of a
\* payload was running: the message is set, nothing is in flight
C30_Witness ==
    /\ cypherError = EmptyQueryMessage
    /\ cypherQuery = " "
    /\ selected = NoSel
    /\ mounted /\ ~loading /\ pending = <<>> /\ fetches = 1
    /\ HasNodes(data) /\ ticks >= 1 /\ loops # {}

\* C29: for every payload the links the simulation applies springs to are, in
\* order, the links resolveLinks resolves for rendering without the
\* self-loops, each as the pair of the indices of the two nodes resolved (so
\* both drop the links with a missing endpoint and both resolve a duplicated
\* id to the last node carrying it); a self-loop is among the rendered links.
C29_SimLinksAreResolvedLinks ==
    (Returned("resolveLinks") /\ arg.d # NoData) =>
        LET rendered == ret.value
            sprung == SelectSeq(rendered, LAMBDA r : r.source # r.target)
        IN /\ SimLinks(arg.d) =
                  [k \in 1..Len(sprung) |->
                      [sourceIndex |-> sprung[k].source, targetIndex |-> sprung[k].target]]
           /\ \A k \in 1..Len(arg.d.links) :
                 (/\ BothEndsKnown(arg.d.links[k], arg.ns)
                  /\ String(arg.d.links[k].source) = String(arg.d.links[k].target))
                     => \E j \in 1..Len(rendered) :
                           /\ rendered[j].link = arg.d.links[k]
                           /\ rendered[j].source = rendered[j].target

\* of a self-loop and a link between two nodes both are rendered, and the
\* simulation has the second only
C29_Witness ==
    /\ Returned("resolveLinks")
    /\ arg.d # NoData
    /\ Len(ret.value) = 2
    /\ ret.value[1].source = ret.value[1].target
    /\ ret.value[2].source # ret.value[2].target
    /\ Len(SimLinks(arg.d)) = 1

\* the Neo4j nodes among the values of the records of a POST result
ReturnedNodes(records) ==
    LET values == UNION {{records[i][k] : k \in 1..Len(records[i])} : i \in 1..Len(records)}
    IN {v \in values : v.kind = "node"}

\* C27: the payload of GET and of POST /api/graph is closed: the node ids are
\* pairwise distinct and the source and the target of every link are ids of
\* nodes of the payload, so resolveLinks drops none of its links; in the
\* payload of POST a node that a record returns appears in full, wherever it
\* stands relative to the relationships, and an endpoint that no record
\* returns appears as the placeholder { id }.
C27_PayloadIsClosed ==
    (Returned("GET /api/graph") \/ Returned("POST /api/graph")) =>
        LET d == ret.value
            ids == [i \in 1..Len(d.nodes) |-> d.nodes[i].id]
        IN /\ \A i, j \in 1..Len(d.nodes) : i # j => String(ids[i]) # String(ids[j])
           /\ \A k \in 1..Len(d.links) :
                 /\ \E i \in 1..Len(d.nodes) : ids[i] = d.links[k].source
                 /\ \E i \in 1..Len(d.nodes) : ids[i] = d.links[k].target
           /\ Len(resolveLinks(d, SimNodesOf(ids))) = Len(d.links)
           /\ Len(SimLinks(d)) =
                 Cardinality({k \in 1..Len(d.links) : d.links[k].source # d.links[k].target})
           /\ arg.fn = "POST /api/graph" =>
                 \A i \in 1..Len(d.nodes) :
                     IF \E v \in ReturnedNodes(arg.records) : StrId(v.identity) = ids[i]
                     THEN \E v \in ReturnedNodes(arg.records) : d.nodes[i] = GraphNodeOf(v)
                     ELSE d.nodes[i] = [id |-> ids[i]]

\* a relationship from "2" to "3" came before the node "2" and the node "3"
\* never came: "2" is in the payload in full, "3" as a placeholder
C27_Witness ==
    /\ Returned("POST /api/graph")
    /\ Len(arg.records) >= 1
    /\ arg.records[1][1].kind = "rel"
    /\ Len(ret.value.links) >= 1
    /\ Len(ret.value.nodes) >= 2
    /\ ret.value.nodes[1] = [id |-> StrId("2"), properties |-> <<>>]
    /\ ret.value.nodes[2] = [id |-> StrId("3")]

\* C23: a call made for one user leaves what every other user reads as it
\* was: getThreads(v) and getMessages(v, t) are unchanged for every v other
\* than the caller.
C23_UsersAreSeparate ==
    [][\A u \in DbUsers :
          DbCall(u) =>
              \A v \in DbUsers \ {u} :
                  /\ getThreads(v)' = getThreads(v)
                  /\ \A t \in ThreadIds : getMessages(v, t)' = getMessages(v, t)]_vars

\* distance between the two nodes of the long run
LongDistance == Norm(longRef[2].x - longRef[1].x, longRef[2].y - longRef[1].y, 0)

\* within LINK_DISTANCE / 8 of LINK_DISTANCE
InBand == 8 * Abs(LongDistance - Fine(LINK_DISTANCE)) <= Fine(LINK_DISTANCE)

\* C22: two nodes joined by one link, seeded far apart at rest and never
\* dragged: the distance between them is within LINK_DISTANCE / 8 of
\* LINK_DISTANCE after MaxLongTicks ticks, and once it is within that band
\* every later tick leaves it there.
C22_SpringSettles ==
    [][/\ InBand => InBand'
       /\ longTicks' = MaxLongTicks => InBand']_vars

\* the run started outside the band and is inside it at its last ticks
C22_Witness ==
    /\ longTicks >= MaxLongTicks - 1
    /\ InBand
    /\ longRef[1].x > Fine(WIDTH) \div 4

====
